---------------------------- MODULE Spec2Model ----------------------------
(***************************************************************************)
(* A model of the Slack MCP server: the directory store (database.ts, kept *)
(* in src/README.md), the synchronisation orchestrator and the send tool   *)
(* (the CallTool handler of src/unnamed/part_002), and the remote client   *)
(* functions (slack.ts, src/unnamed/part_006).                             *)
(*                                                                         *)
(* Ids are pairs <<prefix, n>>: <<"U", 1>> is a user id, <<"C", 1>> a      *)
(* channel id, <<"D", 1>> the id of a one-to-one conversation.  Names are  *)
(* pairs as well, so that the stub the code builds for a failed profile    *)
(* fetch (name = the user id) has the type of every other name.            *)
(***************************************************************************)
EXTENDS Naturals, Integers, Sequences, FiniteSets, TLC

(***************************************************************************)
(* Bounds of the model.                                                    *)
(***************************************************************************)
NumUsers == 2

UserIds == {<<"U", i>> : i \in 1..NumUsers}

\* The conversations of the workspace, in the order conversations.list
\* reports them: a public channel and a one-to-one conversation.
ConvOrder == << <<"C", 1>>, <<"D", 1>> >>
ConvIds == {ConvOrder[i] : i \in 1..Len(ConvOrder)}

\* JS undefined / null for an id, and the empty string '' for a name.
NoId == <<"", 0>>
EmptyName == <<"", 0>>

\* conversation.is_im of a listed conversation.
IsIm(c) == c[1] = "D"

\* A conversation id that starts with A is the id of an archived public
\* channel (conversation.is_archived of the listing).
IsArchived(c) == c[1] = "A"

\* conversation.user of a one-to-one conversation: the other party.
ConvUser(c) == <<"U", ((c[2] - 1) % NumUsers) + 1>>

\* String.prototype.startsWith on an id.
StartsWith(id, p) == id[1] = p

Range(s) == {s[i] : i \in 1..Len(s)}

(***************************************************************************)
(* The remote API.  A response to one refresh is a sequence with one entry *)
(* per listed conversation: the outcome of conversations.members           *)
(* ("throw", "notok" or the member id list) and of each users.info call    *)
(* ("ok", "deleted": ok with user.deleted = true, "fail": the call threw). *)
(***************************************************************************)
ProfileOutcomes == {"ok", "deleted", "fail"}

\* The member id lists conversations.members can report: no id twice.
RECURSIVE SeqsOver(_)
SeqsOver(S) ==
    IF S = {} THEN {<<>>}
    ELSE LET u == CHOOSE x \in S : \A y \in S : x[2] <= y[2]
             rest == SeqsOver(S \ {u})
         IN  rest \cup {<<u>> \o r : r \in rest}

MemberLists == SeqsOver(UserIds)

ConvResponses(c) ==
    IF IsIm(c)
    THEN {[id |-> c, members |-> "none", list |-> <<>>, info |-> f] :
              f \in [{ConvUser(c)} -> ProfileOutcomes]}
    ELSE {[id |-> c, members |-> "throw", list |-> <<>>, info |-> <<>>],
          [id |-> c, members |-> "notok", list |-> <<>>, info |-> <<>>]}
         \cup UNION {{[id |-> c, members |-> "ok", list |-> m, info |-> f] :
                         f \in [Range(m) -> ProfileOutcomes]} : m \in MemberLists}


\* Every response to a listing of the conversations cs (in that order).
RECURSIVE Responses(_)
Responses(cs) ==
    IF cs = <<>> THEN {<<>>}
    ELSE {<<h>> \o t : h \in ConvResponses(Head(cs)), t \in Responses(Tail(cs))}

\* The sub-sequences of ConvOrder: what conversations.list may report.
RECURSIVE SubSeqs(_)
SubSeqs(s) ==
    IF s = <<>> THEN {<<>>}
    ELSE LET rest == SubSeqs(Tail(s))
         IN  rest \cup {<<Head(s)>> \o r : r \in rest}

RemoteResponses == UNION {Responses(cs) : cs \in SubSeqs(ConvOrder)}

(***************************************************************************)
(* slack.ts: fetchChannelsWithMembers(token, true) and refreshAllSlackData *)
(***************************************************************************)
\* The stub of the catch flagged deleted.
MemberDetailStubDeleted(userId, outcome) ==
    IF outcome = "fail"
    THEN [id |-> userId, name |-> userId, email |-> NoId, is_deleted |-> TRUE]
    ELSE [id |-> userId, name |-> <<"name", userId[2]>>,
          email |-> <<"mail", userId[2]>>, is_deleted |-> (outcome = "deleted")]

\* The profile built from a users.info answer, or the stub of the catch.
MemberDetail(userId, outcome) ==
    IF outcome = "fail"
    THEN [id |-> userId, name |-> userId, email |-> NoId, is_deleted |-> FALSE]
    ELSE [id |-> userId, name |-> <<"name", userId[2]>>,
          email |-> <<"mail", userId[2]>>, is_deleted |-> (outcome = "deleted")]

\* One element of conversationsWithMembers.
ConversationWithMembers(r) ==
    IF IsIm(r.id)
    THEN [id |-> r.id, name |-> EmptyName, type |-> "im",
          member_ids |-> <<ConvUser(r.id)>>,
          details_defined |-> TRUE,
          member_details |-> <<MemberDetail(ConvUser(r.id), r.info[ConvUser(r.id)])>>]
    ELSE IF r.members = "throw"
    THEN [id |-> r.id, name |-> <<"chan", r.id[2]>>, type |-> "public_channel",
          member_ids |-> <<>>, details_defined |-> TRUE, member_details |-> <<>>]
    ELSE LET memberIds == IF r.members = "ok" THEN r.list ELSE <<>>
         IN  [id |-> r.id, name |-> <<"chan", r.id[2]>>, type |-> "public_channel",
              member_ids |-> memberIds,
              details_defined |-> (Len(memberIds) > 0),
              member_details |->
                  [i \in 1..Len(memberIds) |-> MemberDetail(memberIds[i], r.info[memberIds[i]])]]

fetchChannelsWithMembers(resp) ==
    [i \in 1..Len(resp) |-> ConversationWithMembers(resp[i])]

\* An array push in the place of the Map: no deduplication by id.
MapSetPush(m, user) == Append(m, user)

\* Map.prototype.set on a Map kept as the sequence of its values in insertion
\* order: an existing key keeps its place and takes the new value.
MapSet(m, user) ==
    IF \E i \in 1..Len(m) : m[i].id = user.id
    THEN [i \in 1..Len(m) |-> IF m[i].id = user.id THEN user ELSE m[i]]
    ELSE Append(m, user)

RECURSIVE SetAll(_, _)
SetAll(m, details) ==
    IF details = <<>> THEN m
    ELSE SetAll(MapSet(m, Head(details)), Tail(details))

\* The loop that reads the member details of the channels only.
DetailsOfChannel(c) ==
    IF c.details_defined /\ c.type # "im" THEN c.member_details ELSE <<>>

\* if (conversation.member_details) for (const user of
\* conversation.member_details): the profiles one conversation contributes.
DetailsOf(c) ==
    IF c.details_defined THEN c.member_details ELSE <<>>

RECURSIVE CollectUsers(_, _)
CollectUsers(m, conversations) ==
    IF conversations = <<>> THEN m
    ELSE CollectUsers(SetAll(m, DetailsOf(Head(conversations))), Tail(conversations))

RECURSIVE SumMemberIds(_)
SumMemberIds(conversations) ==
    IF conversations = <<>> THEN 0
    ELSE Len(Head(conversations).member_ids) + SumMemberIds(Tail(conversations))

refreshAllSlackData(resp) ==
    LET conversations == fetchChannelsWithMembers(resp)
    IN  [conversations |-> conversations,
         users |-> CollectUsers(<<>>, conversations),
         totalMemberships |-> SumMemberIds(conversations)]


(***************************************************************************)
(* database.ts: the directory store.  A table is the set of its rows; the  *)
(* primary key is enforced by the statements, as SQLite enforces it.       *)
(***************************************************************************)
\* INSERT OR IGNORE in the place of INSERT OR REPLACE: a stored id keeps its row.
InsertOrIgnore(table, row) ==
    [ok |-> TRUE,
     table |-> IF \E r \in table : r.id = row.id THEN table ELSE table \cup {row}]

\* INSERT OR REPLACE INTO <table keyed by id>: the row with the same id
\* goes, the statement never fails on the key.
InsertOrReplace(table, row) ==
    [ok |-> TRUE, table |-> {r \in table : r.id # row.id} \cup {row}]

\* The loop over the input rows, one statement per row; the promise of a
\* failed statement rejects and ends the loop.
RECURSIVE storeRows(_, _)
storeRows(table, rows) ==
    IF rows = <<>> THEN [ok |-> TRUE, table |-> table]
    ELSE LET done == InsertOrReplace(table, Head(rows))
         IN  IF done.ok
             THEN storeRows(done.table, Tail(rows))
             ELSE [ok |-> FALSE, table |-> done.table]

\* storeChannels and storeUsers: one INSERT OR REPLACE per input row, in order.
storeChannels(table, rows) == storeRows(table, rows)

storeUsers(table, rows) == storeRows(table, rows)

\* The DELETE without its WHERE clause: every stored membership goes.
DeleteAllMemberships(table, memberships) ==
    IF memberships = <<>> THEN table ELSE {}

\* DELETE FROM channel_memberships WHERE channel_id = ?, for every channel id
\* that occurs in the input.
DeleteMemberships(table, memberships) ==
    {r \in table : \A i \in 1..Len(memberships) : memberships[i].channel_id # r.channel_id}

\* The INSERT loop: a row whose (channel_id, user_id) is already stored
\* violates the primary key, the promise rejects and the loop stops there.
RECURSIVE InsertMemberships(_, _)
InsertMemberships(table, memberships) ==
    IF memberships = <<>> THEN [ok |-> TRUE, table |-> table]
    ELSE LET m == Head(memberships)
         IN  IF \E r \in table : r.channel_id = m.channel_id /\ r.user_id = m.user_id
             THEN [ok |-> FALSE, table |-> table]
             ELSE InsertMemberships(table \cup {m}, Tail(memberships))

storeChannelMemberships(table, memberships) ==
    InsertMemberships(DeleteMemberships(table, memberships), memberships)

\* getChannelMembers: users JOIN channel_memberships, is_deleted = 0.
getChannelMembers(usersT, membershipsT, channelId) ==
    {u \in usersT : /\ u.is_deleted = FALSE
                    /\ \E cm \in membershipsT :
                          cm.user_id = u.id /\ cm.channel_id = channelId}

\* getChannelsWithMembers: every channel row with its joined members.
getChannelsWithMembers(channelsT, usersT, membershipsT) ==
    {[id |-> c.id, type |-> c.type,
      members |-> {u.id : u \in getChannelMembers(usersT, membershipsT, c.id)}] :
         c \in channelsT}


\* An upsert that keeps the priority of a row that is already stored.
storeDMConversationsKeepPriority(table, dms) ==
    storeRows(table,
              [i \in 1..Len(dms) |->
                  IF \E r \in table : r.id = dms[i].id
                  THEN [dms[i] EXCEPT !.priority =
                           (CHOOSE r \in table : r.id = dms[i].id).priority]
                  ELSE dms[i]])

\* storeDMConversations: one INSERT OR REPLACE per input row, in order.
storeDMConversations(table, dms) == storeRows(table, dms)

\* updateDMPriority: UPDATE dm_conversations SET priority = ? WHERE id = ?
updateDMPriority(table, dmId, priority) ==
    {IF r.id = dmId THEN [r EXCEPT !.priority = priority] ELSE r : r \in table}

(***************************************************************************)
(* database.ts: the slack_tokens table.                                    *)
(***************************************************************************)
TeamIds == {<<"T", 1>>}
AccessTokens == {"xoxp-a", "xoxp-b"}
NoToken == "none"

\* storeToken's UPDATE ... SET is_active = 0, updated_at = ? WHERE team_id = ?
\* AND user_id = ?
DeactivatePair(table, teamId, userId, t) ==
    {IF r.team_id = teamId /\ r.user_id = userId
     THEN [r EXCEPT !.is_active = FALSE, !.updated_at = t]
     ELSE r : r \in table}

\* The table without its UNIQUE(team_id, user_id) constraint.
NoUniqueConstraint(table, teamId, userId) == TRUE

\* UNIQUE(team_id, user_id): whether SQLite accepts the new row.
UniqueTeamUser(table, teamId, userId) ==
    ~ \E r \in table : r.team_id = teamId /\ r.user_id = userId

\* storeToken's INSERT: the row gets the next AUTOINCREMENT id; a second row
\* for a (team_id, user_id) pair is refused and the statement throws.
InsertToken(table, id, token) ==
    IF UniqueTeamUser(table, token.team_id, token.user_id)
    THEN [ok |-> TRUE,
          table |-> table \cup {[id |-> id, team_id |-> token.team_id,
                                 user_id |-> token.user_id,
                                 access_token |-> token.access_token,
                                 updated_at |-> token.updated_at,
                                 is_active |-> TRUE]}]
    ELSE [ok |-> FALSE, table |-> table]

\* The query with ORDER BY updated_at ASC: the oldest active row.
getActiveTokenOldest(table, teamId, userId) ==
    LET match == {r \in table :
                     /\ r.is_active
                     /\ IF teamId # NoId /\ userId # NoId
                        THEN r.team_id = teamId /\ r.user_id = userId
                        ELSE IF teamId # NoId THEN r.team_id = teamId ELSE TRUE}
    IN  {r \in match : \A q \in match : r.updated_at <= q.updated_at}

\* getActiveToken(teamId?, userId?): the rows the query may return (ORDER BY
\* updated_at DESC LIMIT 1 leaves the choice among equal updated_at open);
\* the empty set stands for null.  NoId is an argument left out.
getActiveToken(table, teamId, userId) ==
    LET match == {r \in table :
                     /\ r.is_active
                     /\ IF teamId # NoId /\ userId # NoId
                        THEN r.team_id = teamId /\ r.user_id = userId
                        ELSE IF teamId # NoId THEN r.team_id = teamId ELSE TRUE}
    IN  {r \in match : \A q \in match : q.updated_at <= r.updated_at}

\* deactivateToken(tokenId) and deleteToken(tokenId).
deactivateToken(table, tokenId, t) ==
    {IF r.id = tokenId THEN [r EXCEPT !.is_active = FALSE, !.updated_at = t] ELSE r :
        r \in table}

deleteToken(table, tokenId) == {r \in table : r.id # tokenId}


(***************************************************************************)
(* The state: the five tables of the store, the environment's bot token,   *)
(* and the record of the last tool call (what it was given, what the       *)
(* remote API answered, what it returned).                                 *)
(***************************************************************************)
VARIABLES channels, users, channel_memberships, dm_conversations,
          slack_tokens, envToken, lastOp

\* A direct call of one store method: the method, its input rows, the table
\* before the call and whether the call resolved.
VARIABLE storeCall

\* The token methods: the next AUTOINCREMENT id, Date.now(), the storeToken
\* call each caller is in (between its UPDATE and its INSERT), and the
\* storeToken calls that ran one after the other, with no other token call
\* between or during them (the last two of them).
VARIABLES nextTokenId, now, inflight, seqCalls

tokenVars == <<nextTokenId, now, inflight, seqCalls>>

\* One call of fetchLatestMessagesFromChannel: where it is, the history page,
\* the channel name it resolved, the index of the message in the loop, the
\* list it builds, what each conversations.replies call answered, and the
\* value it returns.
VARIABLES fpc, page, channelInfo, msgIndex, messagesWithThreads, replyFetch, fetchResult

\* The remote calls of that call when it is followed call by call: for each
\* call issued, in order, its method, the index of the message it is for,
\* and whether it has been answered (and how).
VARIABLE remoteCalls

fetchVars == <<fpc, page, channelInfo, msgIndex, messagesWithThreads, replyFetch, fetchResult,
               remoteCalls>>

storeVars == <<channels, users, channel_memberships, dm_conversations>>

\* The tool calls in progress, statement by statement: the operation each
\* caller's request runs (req) and the payload its request was answered
\* with (response).
VARIABLES req, response

\* A direct call of fetchThreadReplies and of a DM listing method: the
\* arguments, what the remote API or the table held, and the value returned.
VARIABLES threadCall, dmQuery

callVars == <<req, response, threadCall, dmQuery>>

(***************************************************************************)
(* The CallTool handler (index.ts).                                        *)
(***************************************************************************)
\* getTokenAndChannel: the token of the active stored row, else the
\* environment's; tokenInfo.user_id is the stored row's user.
getTokenAndChannel(table, env) ==
    LET db == getActiveToken(table, NoId, NoId)
    IN  IF db # {}
        THEN {[token |-> r.access_token, user_id |-> r.user_id] : r \in db}
        ELSE {[token |-> env, user_id |-> NoId]}

StoredChannelOf(conv) ==
    [id |-> conv.id, name |-> conv.name, type |-> conv.type,
     is_archived |-> IsArchived(conv.id),
     num_members |-> Len(conv.member_ids)]

StoredUserOf(user) ==
    [id |-> user.id, name |-> user.name, email |-> user.email,
     is_deleted |-> user.is_deleted]

\* The memberships loop: one row per conversation and member id, in order.
RECURSIVE MembershipsOf(_)
MembershipsOf(conversations) ==
    IF conversations = <<>> THEN <<>>
    ELSE LET c == Head(conversations)
         IN  [i \in 1..Len(c.member_ids) |->
                 [channel_id |-> c.id, user_id |-> c.member_ids[i]]]
             \o MembershipsOf(Tail(conversations))

\* The conversation id the handler hard-codes with priority 100.
PriorityDMNumber == 2

\* result.users.find(u => dm.member_ids.includes(u.id) && u.id !== currentUserId),
\* looked for only when the conversation has exactly two member ids.
OtherUser(dm, resultUsers, currentUserId) ==
    LET hits == {i \in 1..Len(resultUsers) :
                    /\ resultUsers[i].id \in Range(dm.member_ids)
                    /\ resultUsers[i].id # currentUserId}
    IN  IF Len(dm.member_ids) = 2 /\ hits # {}
        THEN <<resultUsers[CHOOSE i \in hits : \A j \in hits : i <= j]>>
        ELSE <<>>

DMConversationOf(dm, resultUsers, currentUserId) ==
    LET other == OtherUser(dm, resultUsers, currentUserId)
    IN  [id |-> dm.id, type |-> dm.type,
         user_id |-> IF other = <<>> THEN NoId ELSE other[1].id,
         user_name |-> IF other = <<>> THEN EmptyName ELSE other[1].name,
         is_user_deleted |-> IF other = <<>> THEN FALSE ELSE other[1].is_deleted,
         priority |-> IF dm.id = <<"D", PriorityDMNumber>> THEN 100 ELSE 0]

RECURSIVE SelectIm(_)
SelectIm(conversations) ==
    IF conversations = <<>> THEN <<>>
    ELSE (IF Head(conversations).type = "im" THEN <<Head(conversations)>> ELSE <<>>)
         \o SelectIm(Tail(conversations))

DMConversationsOf(result, currentUserId) ==
    LET ims == SelectIm(result.conversations)
    IN  [i \in 1..Len(ims) |-> DMConversationOf(ims[i], result.users, currentUserId)]

Callers == {1, 2}

Idle == [pc |-> "idle", overlapped |-> FALSE,
         token |-> [team_id |-> NoId, user_id |-> NoId,
                    access_token |-> NoToken, updated_at |-> 0]]

\* No token call in progress; the stored token of DirInit has id 1.
TokensIdle ==
    /\ nextTokenId = 2
    /\ now = 0
    /\ inflight = [p \in Callers |-> Idle]
    /\ seqCalls = <<>>

\* No fetchLatestMessagesFromChannel call in progress.
FetchIdle ==
    /\ fpc = "idle"
    /\ page = <<>>
    /\ channelInfo = EmptyName
    /\ msgIndex = 0
    /\ messagesWithThreads = <<>>
    /\ replyFetch = <<>>
    /\ fetchResult = [ok |-> TRUE, messages |-> <<>>]
    /\ remoteCalls = <<>>

\* A caller with no request, and a request not answered yet.  Of a request:
\* the remote response it got, the statements of its four store calls, the
\* index of each call's next statement, which calls rejected, whether the
\* operation's promise has settled, and (for the properties) the membership
\* table when the store calls were started and whether every other request
\* had ended by then.
NoReq ==
    [pc |-> "idle", tool |-> "none", resp |-> <<>>,
     stmts |-> <<>>, next |-> <<>>, failed |-> <<>>, settled |-> FALSE,
     before |-> {}, othersDone |-> FALSE]

NoResponse == [kind |-> "none", isError |-> FALSE, text |-> ""]

NoThreadCall ==
    [pc |-> "idle", channel |-> NoId, parentTs |-> <<0, 0>>, limit |-> 0,
     requested |-> 0, threadSize |-> 0, remote |-> <<>>, infoOk |-> FALSE,
     ok |-> TRUE, messages |-> <<>>]

NoDMQuery == [fn |-> "none", type |-> "", rows |-> <<>>]

\* No tool call in progress and no direct call made.
CallsIdle ==
    /\ req = [p \in Callers |-> NoReq]
    /\ response = [p \in Callers |-> NoResponse]
    /\ threadCall = NoThreadCall
    /\ dmQuery = NoDMQuery

NoCall == [fn |-> "none", rows |-> <<>>, before |-> {}, ok |-> TRUE]

NoOp ==
    [op |-> "none", ok |-> TRUE, error |-> "", resp |-> <<>>, conversations |-> <<>>,
     users |-> <<>>, memberships |-> <<>>, target |-> NoId, postedTo |-> NoId,
     token |-> NoToken, list |-> "none", dms |-> <<>>]

\* The arguments of the conversations.list call: the four types and the
\* limit, and no exclude_archived.
ListRequest ==
    [types |-> {"public_channel", "private_channel", "im", "mpim"},
     exclude_archived |-> "absent"]

\* The remote API leaves archived conversations out of a listing only when
\* exclude_archived = true is asked for.
Listable(resp, request) ==
    request.exclude_archived = "true" =>
        \A i \in 1..Len(resp) : ~ IsArchived(resp[i].id)

\* What conversations.list does: it throws, answers ok = false, or answers
\* ok = true with the conversations.
ListAnswers == {"throw", "notok", "ok"}

\* The listing without the test of channelsResult.ok: only a throw is fatal.
ListFailedOnThrow(answer) == answer = "throw"

\* await web.conversations.list(...) throws, or if (!channelsResult.ok) throw.
ListFailed(answer) == answer # "ok"

\* The loop body with no catch around it: a throw of conversations.members
\* goes to the outer catch of fetchChannelsWithMembers.
TryMembersNoCatch(r) ==
    [thrown |-> ~ IsIm(r.id) /\ r.members = "throw",
     conversation |-> ConversationWithMembers(r)]

\* try { ... } catch (memberError) { conversationsWithMembers.push({...
\* member_ids: [], member_details: [] }) }: nothing is thrown on.
TryMembers(r) ==
    [thrown |-> FALSE, conversation |-> ConversationWithMembers(r)]

\* case 'refresh_all_slack_data' against a remote API that answers with one
\* of responses: the token, the remote fetch, the four row sets, and the
\* four store calls of the Promise.all.
RefreshWith(responses) ==
    /\ lastOp.op = "none"
    /\ \E cred \in getTokenAndChannel(slack_tokens, envToken) :
         IF cred.token = NoToken
         THEN /\ lastOp' = [NoOp EXCEPT !.op = "refresh", !.ok = FALSE,
                                        !.error = "no_token"]
              /\ UNCHANGED <<storeVars, slack_tokens, envToken, storeCall, tokenVars, fetchVars, callVars>>
         ELSE \E list \in ListAnswers :
              IF ListFailed(list)
              THEN \* conversations.list throws or answers ok = false
                   /\ lastOp' = [NoOp EXCEPT !.op = "refresh", !.ok = FALSE,
                                             !.error = "list_failed",
                                             !.token = cred.token, !.list = list]
                   /\ UNCHANGED <<storeVars, slack_tokens, envToken, storeCall, tokenVars, fetchVars, callVars>>
              ELSE \E resp \in IF list = "ok"
                               THEN {r \in responses : Listable(r, ListRequest)}
                               ELSE {<<>>} :
                   IF \E i \in 1..Len(resp) : TryMembers(resp[i]).thrown
                   THEN /\ lastOp' = [NoOp EXCEPT !.op = "refresh", !.ok = FALSE,
                                                  !.error = "fetch_failed",
                                                  !.resp = resp,
                                                  !.token = cred.token, !.list = list]
                        /\ UNCHANGED <<storeVars, slack_tokens, envToken, storeCall, tokenVars, fetchVars, callVars>>
                   ELSE
                   \E result \in {refreshAllSlackData(resp)} :
                   \E memberships \in {MembershipsOf(result.conversations)} :
                   \E stored \in {storeChannelMemberships(channel_memberships, memberships)} :
                     LET storedChannels == [i \in 1..Len(result.conversations) |->
                                               StoredChannelOf(result.conversations[i])]
                         storedUsers == [i \in 1..Len(result.users) |->
                                            StoredUserOf(result.users[i])]
                         dmConversations == DMConversationsOf(result, cred.user_id)
                         c == storeChannels(channels, storedChannels)
                         u == storeUsers(users, storedUsers)
                         d == storeDMConversations(dm_conversations, dmConversations)
                         allOk == c.ok /\ u.ok /\ stored.ok /\ d.ok
                     IN  /\ channels' = c.table
                         /\ users' = u.table
                         /\ channel_memberships' = stored.table
                         /\ dm_conversations' = d.table
                         /\ lastOp' = [NoOp EXCEPT !.op = "refresh", !.ok = allOk,
                                          !.error = IF allOk THEN "" ELSE "storage",
                                          !.resp = resp, !.token = cred.token,
                                          !.list = list,
                                          !.conversations = result.conversations,
                                          !.users = result.users,
                                          !.memberships = memberships,
                                          !.dms = dmConversations]
                         /\ UNCHANGED <<slack_tokens, envToken, storeCall, tokenVars, fetchVars, callVars>>

\* The refresh tool against the workspace of ConvOrder.
RefreshAllSlackDataTool == RefreshWith(RemoteResponses)

\* The find without the test of the conversation type.
FindDMChannelAnyType(channelsWithMembers, channel) ==
    {c \in channelsWithMembers : channel \in c.members}

\* channelsWithMembers.find(c => c.type === 'im' && c.members.some(m => m.id === channel))
FindDMChannel(channelsWithMembers, channel) ==
    {c \in channelsWithMembers : c.type = "im" /\ channel \in c.members}

\* case 'send_slack_message': a target that starts with U is resolved to a
\* cached one-to-one conversation; chat.postMessage goes to targetChannel.
SendSlackMessageTool ==
    \E cred \in getTokenAndChannel(slack_tokens, envToken),
       channel \in UserIds \cup ConvIds \cup {NoId} :
      /\ lastOp.op = "none"
      /\ UNCHANGED <<storeVars, slack_tokens, envToken, storeCall, tokenVars, fetchVars, callVars>>
      /\ IF cred.token = NoToken
         THEN lastOp' = [NoOp EXCEPT !.op = "send", !.ok = FALSE, !.error = "no_token",
                                     !.target = channel]
         ELSE IF channel # NoId /\ StartsWith(channel, "U")
         THEN LET found == FindDMChannel(
                              getChannelsWithMembers(channels, users, channel_memberships),
                              channel)
              IN  IF found = {}
                  THEN lastOp' = [NoOp EXCEPT !.op = "send", !.ok = FALSE,
                                      !.error = "no_dm_channel", !.target = channel,
                                      !.token = cred.token]
                  ELSE \E dmChannel \in found, sent \in BOOLEAN :
                         lastOp' = [NoOp EXCEPT !.op = "send", !.ok = sent,
                                        !.error = IF sent THEN "" ELSE "remote",
                                        !.target = channel, !.postedTo = dmChannel.id,
                                        !.token = cred.token]
         ELSE \E sent \in BOOLEAN :
                lastOp' = [NoOp EXCEPT !.op = "send", !.ok = sent,
                               !.error = IF sent THEN "" ELSE "remote",
                               !.target = channel, !.postedTo = channel,
                               !.token = cred.token]

\* app.post('/mcp'): the result of the tool call goes back to the caller and
\* the next request is taken.
ReturnResult ==
    /\ lastOp.op # "none"
    /\ lastOp' = NoOp
    /\ UNCHANGED <<storeVars, slack_tokens, envToken, storeCall, tokenVars, fetchVars, callVars>>

StoredToken ==
    [id |-> 1, team_id |-> <<"T", 1>>, user_id |-> <<"U", 1>>,
     access_token |-> "xoxp-a", updated_at |-> 0, is_active |-> TRUE]

DirInit ==
    /\ channels = {}
    /\ users = {}
    /\ channel_memberships = {}
    /\ dm_conversations = {}
    /\ slack_tokens \in {{}, {StoredToken}}
    /\ envToken = NoToken
    /\ lastOp = NoOp
    /\ storeCall = NoCall
    /\ TokensIdle
    /\ FetchIdle
    /\ CallsIdle

vars == <<channels, users, channel_memberships, dm_conversations,
          slack_tokens, envToken, lastOp, storeCall, tokenVars, fetchVars, callVars>>

Init == DirInit

Next ==
    \/ RefreshAllSlackDataTool
    \/ SendSlackMessageTool
    \/ ReturnResult

Spec == Init /\ [][Next]_vars


(***************************************************************************)
(* The store methods called directly (specification SpecStore): the table  *)
(* of the method starts in any state its primary key allows, and the       *)
(* method is given any sequence of at most MaxRows rows.                   *)
(***************************************************************************)
MaxRows == 3

BoundedSeqs(S, n) == UNION {[1..k -> S] : k \in 0..n}

ChannelRows ==
    {[id |-> c, name |-> IF IsIm(c) THEN EmptyName ELSE <<"chan", c[2]>>,
      type |-> IF IsIm(c) THEN "im" ELSE "public_channel",
      is_archived |-> IsArchived(c), num_members |-> n] :
        c \in ConvIds, n \in 0..NumUsers}

UserRows == {StoredUserOf(MemberDetail(u, o)) : u \in UserIds, o \in ProfileOutcomes}

MembershipRows == {[channel_id |-> c, user_id |-> u] : c \in ConvIds, u \in UserIds}

\* The states of a table with PRIMARY KEY id.
KeyedTables(rows) ==
    {t \in SUBSET rows : \A r1, r2 \in t : r1.id = r2.id => r1 = r2}

StoreChannelsCall ==
    /\ storeCall.fn = "none"
    /\ \E rows \in BoundedSeqs(ChannelRows, MaxRows) :
       \E done \in {storeChannels(channels, rows)} :
          /\ channels' = done.table
          /\ storeCall' = [fn |-> "storeChannels", rows |-> rows,
                           before |-> channels, ok |-> done.ok]
    /\ UNCHANGED <<users, channel_memberships, dm_conversations,
                   slack_tokens, envToken, lastOp, tokenVars, fetchVars, callVars>>

StoreUsersCall ==
    /\ storeCall.fn = "none"
    /\ \E rows \in BoundedSeqs(UserRows, MaxRows) :
       \E done \in {storeUsers(users, rows)} :
          /\ users' = done.table
          /\ storeCall' = [fn |-> "storeUsers", rows |-> rows,
                           before |-> users, ok |-> done.ok]
    /\ UNCHANGED <<channels, channel_memberships, dm_conversations,
                   slack_tokens, envToken, lastOp, tokenVars, fetchVars, callVars>>

StoreChannelMembershipsCall ==
    /\ storeCall.fn = "none"
    /\ \E rows \in BoundedSeqs(MembershipRows, MaxRows) :
       \E done \in {storeChannelMemberships(channel_memberships, rows)} :
          /\ channel_memberships' = done.table
          /\ storeCall' = [fn |-> "storeChannelMemberships", rows |-> rows,
                           before |-> channel_memberships, ok |-> done.ok]
    /\ UNCHANGED <<channels, users, dm_conversations,
                   slack_tokens, envToken, lastOp, tokenVars, fetchVars, callVars>>

StoreInit ==
    /\ \/ channels \in KeyedTables(ChannelRows) /\ users = {} /\ channel_memberships = {}
       \/ channels = {} /\ users \in KeyedTables(UserRows) /\ channel_memberships = {}
       \/ channels = {} /\ users = {} /\ channel_memberships \in SUBSET MembershipRows
    /\ dm_conversations = {}
    /\ slack_tokens = {}
    /\ envToken = NoToken
    /\ lastOp = NoOp
    /\ storeCall = NoCall
    /\ TokensIdle
    /\ FetchIdle
    /\ CallsIdle

StoreNext ==
    \/ StoreChannelsCall
    \/ StoreUsersCall
    \/ StoreChannelMembershipsCall

SpecStore == StoreInit /\ [][StoreNext]_vars

(***************************************************************************)
(* Properties of the store methods (specification SpecStore).              *)
(***************************************************************************)
RowsOfChannel(table, c) == {r \in table : r.channel_id = c}

InputRowsOfChannel(rows, c) == {rows[i] : i \in {j \in 1..Len(rows) : rows[j].channel_id = c}}

MembershipPostcondition ==
    \A c \in ConvIds :
          IF InputRowsOfChannel(storeCall.rows, c) # {}
          THEN RowsOfChannel(channel_memberships, c) = InputRowsOfChannel(storeCall.rows, c)
          ELSE RowsOfChannel(channel_memberships, c) = RowsOfChannel(storeCall.before, c)

NoPairTwice(rows) ==
    \A i, j \in 1..Len(rows) : i # j => rows[i] # rows[j]

\* C9: after storeChannelMemberships(rows) has resolved, from any prior
\* state, a channel that occurs in rows holds exactly its rows of the input,
\* and a channel that does not occur in rows holds the rows it held before;
\* the call resolves on every input that names no (channel_id, user_id)
\* pair twice.
C9_ReplaceMemberships ==
    storeCall.fn = "storeChannelMemberships" =>
        /\ NoPairTwice(storeCall.rows) => storeCall.ok
        /\ storeCall.ok => MembershipPostcondition

\* C9's case: the call replaced the rows of one channel by a different,
\* non-empty set while another channel, absent from the input, kept its rows.
C9_Witness ==
    /\ storeCall.fn = "storeChannelMemberships"
    /\ storeCall.ok
    /\ \E c, d \in ConvIds :
          /\ InputRowsOfChannel(storeCall.rows, c) # {}
          /\ RowsOfChannel(storeCall.before, c) \ InputRowsOfChannel(storeCall.rows, c) # {}
          /\ InputRowsOfChannel(storeCall.rows, d) = {}
          /\ RowsOfChannel(channel_memberships, d) # {}

TableOfCall == IF storeCall.fn = "storeChannels" THEN channels ELSE users

InputIds(rows) == {rows[i].id : i \in 1..Len(rows)}

\* C10: storeChannels and storeUsers raise no error on any input; afterwards
\* the table has one row per id, every id of the input carries the values of
\* its last occurrence, and the rows of the other ids are as before.
C10_Upsert ==
    storeCall.fn \in {"storeChannels", "storeUsers"} =>
        LET rows == storeCall.rows
        IN  /\ storeCall.ok
            /\ \A r1, r2 \in TableOfCall : r1.id = r2.id => r1 = r2
            /\ \A i \in 1..Len(rows) :
                  (\A j \in (i + 1)..Len(rows) : rows[j].id # rows[i].id) =>
                      {r \in TableOfCall : r.id = rows[i].id} = {rows[i]}
            /\ {r \in TableOfCall : r.id \notin InputIds(rows)}
                   = {r \in storeCall.before : r.id \notin InputIds(rows)}

\* C10's case: a mixed input: an id stored before with other values, an id
\* repeated inside the input with two different rows, and a stored row whose
\* id the input does not name.
C10_Witness ==
    /\ storeCall.fn \in {"storeChannels", "storeUsers"}
    /\ \E i, j \in 1..Len(storeCall.rows) :
          /\ i < j
          /\ storeCall.rows[i].id = storeCall.rows[j].id
          /\ storeCall.rows[i] # storeCall.rows[j]
          /\ \E r \in storeCall.before : r.id = storeCall.rows[i].id /\ r # storeCall.rows[j]
    /\ \E r \in storeCall.before : r.id \notin InputIds(storeCall.rows)

(***************************************************************************)
(* The token methods (specification SpecTokens): storeToken is two awaited *)
(* statements, so the calls of two callers (two OAuth callbacks) interleave *)
(* between the UPDATE and the INSERT; deactivateToken and deleteToken are  *)
(* one statement each.                                                     *)
(***************************************************************************)
MaxTokenId == 2
MaxClock == 1

\* storeToken, up to its first await: the UPDATE that deactivates the pair.
StoreTokenUpdate(p) ==
    /\ inflight[p].pc = "idle"
    /\ nextTokenId <= MaxTokenId
    /\ \E team \in TeamIds, user \in UserIds, tok \in AccessTokens :
       LET busy == \E q \in Callers : inflight[q].pc # "idle"
       IN  /\ slack_tokens' = DeactivatePair(slack_tokens, team, user, now)
           /\ inflight' = [q \in Callers |->
                             IF q = p
                             THEN [pc |-> "insert", overlapped |-> busy,
                                   token |-> [team_id |-> team, user_id |-> user,
                                              access_token |-> tok, updated_at |-> now]]
                             ELSE IF inflight[q].pc # "idle"
                             THEN [inflight[q] EXCEPT !.overlapped = TRUE]
                             ELSE inflight[q]]
           /\ seqCalls' = IF busy THEN <<>>
                          ELSE IF Len(seqCalls) = 2 THEN Tail(seqCalls) ELSE seqCalls
    /\ UNCHANGED <<storeVars, envToken, lastOp, storeCall, nextTokenId, now, fetchVars, callVars>>

\* storeToken, after the UPDATE: the INSERT, which resolves or rejects.
StoreTokenInsert(p) ==
    /\ inflight[p].pc = "insert"
    /\ \E done \in {InsertToken(slack_tokens, nextTokenId, inflight[p].token)} :
          /\ slack_tokens' = done.table
          /\ nextTokenId' = IF done.ok THEN nextTokenId + 1 ELSE nextTokenId
          /\ seqCalls' = IF inflight[p].overlapped THEN <<>>
                         ELSE Append(seqCalls,
                                     [team_id |-> inflight[p].token.team_id,
                                      user_id |-> inflight[p].token.user_id,
                                      access_token |-> inflight[p].token.access_token,
                                      ok |-> done.ok])
    /\ inflight' = [inflight EXCEPT ![p] = Idle]
    /\ UNCHANGED <<storeVars, envToken, lastOp, storeCall, now, fetchVars, callVars>>

DeactivateTokenCall ==
    /\ \E tokenId \in 1..MaxTokenId :
          slack_tokens' = deactivateToken(slack_tokens, tokenId, now)
    /\ seqCalls' = <<>>
    /\ inflight' = [q \in Callers |-> IF inflight[q].pc # "idle"
                                     THEN [inflight[q] EXCEPT !.overlapped = TRUE]
                                     ELSE inflight[q]]
    /\ UNCHANGED <<storeVars, envToken, lastOp, storeCall, nextTokenId, now, fetchVars, callVars>>

DeleteTokenCall ==
    /\ \E tokenId \in 1..MaxTokenId :
          slack_tokens' = deleteToken(slack_tokens, tokenId)
    /\ seqCalls' = <<>>
    /\ inflight' = [q \in Callers |-> IF inflight[q].pc # "idle"
                                     THEN [inflight[q] EXCEPT !.overlapped = TRUE]
                                     ELSE inflight[q]]
    /\ UNCHANGED <<storeVars, envToken, lastOp, storeCall, nextTokenId, now, fetchVars, callVars>>

\* Date.now() moves on.
Tick ==
    /\ now < MaxClock
    /\ now' = now + 1
    /\ UNCHANGED <<storeVars, slack_tokens, envToken, lastOp, storeCall,
                   nextTokenId, inflight, seqCalls, fetchVars, callVars>>

TokenInit ==
    /\ channels = {}
    /\ users = {}
    /\ channel_memberships = {}
    /\ dm_conversations = {}
    /\ slack_tokens = {}
    /\ envToken = NoToken
    /\ lastOp = NoOp
    /\ storeCall = NoCall
    /\ nextTokenId = 1
    /\ now = 0
    /\ inflight = [p \in Callers |-> Idle]
    /\ seqCalls = <<>>
    /\ FetchIdle
    /\ CallsIdle

TokenNext ==
    \/ \E p \in Callers : StoreTokenUpdate(p)
    \/ \E p \in Callers : StoreTokenInsert(p)
    \/ DeactivateTokenCall
    \/ DeleteTokenCall
    \/ Tick

SpecTokens == TokenInit /\ [][TokenNext]_vars

(***************************************************************************)
(* Properties of the token methods (specification SpecTokens).             *)
(***************************************************************************)
ActiveRows(team, user) ==
    {r \in slack_tokens : r.team_id = team /\ r.user_id = user /\ r.is_active}

\* C2: when storeToken is called twice in sequence for one (team, user) pair
\* with two different access tokens, both calls succeed, getActiveToken of
\* the pair then returns the second token, and exactly one row of the pair
\* is active.
C2_StoreTokenTwice ==
    (/\ Len(seqCalls) = 2
     /\ seqCalls[1].team_id = seqCalls[2].team_id
     /\ seqCalls[1].user_id = seqCalls[2].user_id
     /\ seqCalls[1].access_token # seqCalls[2].access_token) =>
        /\ seqCalls[1].ok
        /\ seqCalls[2].ok
        /\ {r.access_token :
               r \in getActiveToken(slack_tokens, seqCalls[2].team_id, seqCalls[2].user_id)}
              = {seqCalls[2].access_token}
        /\ Cardinality(ActiveRows(seqCalls[2].team_id, seqCalls[2].user_id)) = 1

\* C3: in every reachable state, whatever storeToken, deactivateToken and
\* deleteToken calls ran and however they interleaved, a (team_id, user_id)
\* pair has at most one row with is_active = 1.
C3_SingleActive ==
    \A team \in TeamIds, user \in UserIds : Cardinality(ActiveRows(team, user)) <= 1

\* C3's case: a storeToken call is between its UPDATE and its INSERT while
\* the row another call inserted for the same pair is active.
C3_Witness ==
    \E p \in Callers :
       /\ inflight[p].pc = "insert"
       /\ ActiveRows(inflight[p].token.team_id, inflight[p].token.user_id) # {}

(***************************************************************************)
(* slack.ts: fetchLatestMessagesFromChannel (specification SpecMessages).  *)
(* A Slack timestamp "sec.micro" is the pair <<sec, micro>>; <<0, 0>> is a *)
(* message without ts.  reply_count 0 stands for zero or absent.  The text *)
(* of a message tells it from every other message of the page.             *)
(***************************************************************************)
MaxPage == 2
MaxSec == 1
MaxReplies == 2

NoTs == <<0, 0>>
TsValues == {<<s, u>> : s \in 1..MaxSec, u \in 0..1} \cup {NoTs}

\* The history pages of k messages conversations.history may answer (k is
\* at most MaxPage, far below SLACK_LIMIT).
Pages(k) ==
    {[i \in 1..k |-> [ts |-> t[i], reply_count |-> rc[i], text |-> <<"m", i>>]] :
        t \in [1..k -> TsValues], rc \in [1..k -> 0..MaxReplies]}

\* What conversations.replies may answer for a parent: the call throws, the
\* list is empty, or the list is the parent followed by n replies.
ReplyAnswers(msg) ==
    {[ok |-> FALSE, messages |-> <<>>], [ok |-> TRUE, messages |-> <<>>]}
    \cup {[ok |-> TRUE,
           messages |-> <<[ts |-> msg.ts, text |-> msg.text]>>
                        \o [k \in 1..n |-> [ts |-> <<msg.ts[1] + MaxSec, k>>,
                                            text |-> <<"r", k>>]]] :
             n \in 0..MaxReplies}

NoAnswer == [ok |-> TRUE, messages |-> <<>>]

\* parseFloat(m.ts || '0'), in microseconds.
ParseTs(ts) == IF ts = NoTs THEN 0 ELSE ts[1] * 1000000 + ts[2]

\* The comparator with its operands exchanged: newest first.
CompareTsReversed(a, b) == ParseTs(b.ts) - ParseTs(a.ts)

\* The comparator of the sort: aTs - bTs.
CompareTs(a, b) == ParseTs(a.ts) - ParseTs(b.ts)

\* Array.prototype.sort with that comparator: a stable sort.
RECURSIVE InsertSorted(_, _)
InsertSorted(sorted, m) ==
    IF sorted = <<>> THEN <<m>>
    ELSE IF CompareTs(sorted[Len(sorted)], m) <= 0 THEN Append(sorted, m)
    ELSE Append(InsertSorted(SubSeq(sorted, 1, Len(sorted) - 1), m), sorted[Len(sorted)])

RECURSIVE SortMessages(_)
SortMessages(ms) ==
    IF ms = <<>> THEN <<>>
    ELSE InsertSorted(SortMessages(SubSeq(ms, 1, Len(ms) - 1)), ms[Len(ms)])

\* The test without the reply count: a fetch for every message with a ts.
HasTs(msg) == msg.ts # NoTs

\* msg.reply_count && msg.reply_count > 0 && msg.ts
HasThread(msg) == msg.reply_count > 0 /\ msg.ts # NoTs

\* slice(0): the whole answer, the echoed parent with it.
KeepParent(messages) == messages

\* replies.messages.slice(1): the answer without its first message.
SkipParent(messages) == Tail(messages)

\* The nested replies built from an answer of conversations.replies.
ThreadReplies(msg, answer) ==
    IF answer.ok /\ Len(answer.messages) > 1
    THEN LET rest == SkipParent(answer.messages)
         IN  [k \in 1..Len(rest) |->
                 [ts |-> rest[k].ts, text |-> rest[k].text, thread_ts |-> msg.ts,
                  is_thread_reply |-> TRUE, parent_message_ts |-> msg.ts]]
    ELSE <<>>

MessageWithContext(msg, name, replies) ==
    [ts |-> msg.ts, reply_count |-> msg.reply_count, text |-> msg.text,
     conversation_name |-> name,
     is_thread_parent |-> msg.reply_count > 0,
     is_thread_reply |-> FALSE,
     thread_replies |-> replies]

\* A test that never holds: an empty page is processed as any other.
NeverEmpty(history) == FALSE

\* !history.messages || history.messages.length === 0
EmptyHistory(history) == history = <<>>

\* The call, up to the answer of conversations.history: a failure is thrown
\* to the caller, an empty page returns [].
FetchHistory ==
    /\ fpc = "idle"
    /\ \/ /\ fpc' = "done"
          /\ fetchResult' = [ok |-> FALSE, messages |-> <<>>]
          /\ UNCHANGED page
       \/ \E k \in 0..MaxPage : \E history \in Pages(k) :
             /\ page' = history
             /\ fpc' = IF EmptyHistory(history) THEN "done" ELSE "info"
             /\ UNCHANGED fetchResult
    /\ UNCHANGED <<storeVars, slack_tokens, envToken, lastOp, storeCall, tokenVars,
                   channelInfo, msgIndex, messagesWithThreads, replyFetch, remoteCalls, callVars>>

\* conversations.info: the channel's name, or the channel id when it fails.
FetchChannelInfo ==
    /\ fpc = "info"
    /\ \E ok \in BOOLEAN :
          channelInfo' = IF ok THEN <<"chan", 1>> ELSE <<"C", 1>>
    /\ fpc' = "loop"
    /\ msgIndex' = 1
    /\ UNCHANGED <<storeVars, slack_tokens, envToken, lastOp, storeCall, tokenVars,
                   page, messagesWithThreads, replyFetch, fetchResult, remoteCalls, callVars>>

\* The try around the reply fetch with no catch: the error of the fetch is
\* thrown on to the function's outer catch.
TryRepliesNoCatch(msg, answer) ==
    [thrown |-> ~ answer.ok, replies |-> ThreadReplies(msg, answer)]

\* try { replies = await conversations.replies(...) ... } catch (threadError)
\* { /* continue */ }: nothing is thrown on, a failed fetch leaves the
\* initial empty thread_replies.
TryReplies(msg, answer) ==
    [thrown |-> FALSE, replies |-> ThreadReplies(msg, answer)]

\* One turn of the loop over history.messages.
ProcessMessage ==
    /\ fpc = "loop"
    /\ msgIndex <= Len(page)
    /\ LET msg == page[msgIndex]
       IN  \E answer \in IF HasThread(msg) THEN ReplyAnswers(msg) ELSE {NoAnswer} :
           \E tried \in {TryReplies(msg, answer)} :
              /\ replyFetch' = Append(replyFetch,
                                      [asked |-> HasThread(msg), ok |-> answer.ok,
                                       messages |-> answer.messages])
              /\ IF tried.thrown
                 THEN /\ fpc' = "done"
                      /\ fetchResult' = [ok |-> FALSE, messages |-> <<>>]
                      /\ UNCHANGED messagesWithThreads
                 ELSE /\ messagesWithThreads' =
                            Append(messagesWithThreads,
                                   MessageWithContext(msg, channelInfo, tried.replies))
                      /\ UNCHANGED <<fpc, fetchResult>>
    /\ msgIndex' = msgIndex + 1
    /\ UNCHANGED <<storeVars, slack_tokens, envToken, lastOp, storeCall, tokenVars,
                   page, channelInfo, remoteCalls, callVars>>

\* After the loop: the sort and the return.
SortAndReturn ==
    /\ fpc = "loop"
    /\ msgIndex > Len(page)
    /\ fetchResult' = [ok |-> TRUE, messages |-> SortMessages(messagesWithThreads)]
    /\ fpc' = "done"
    /\ UNCHANGED <<storeVars, slack_tokens, envToken, lastOp, storeCall, tokenVars,
                   page, channelInfo, msgIndex, messagesWithThreads, replyFetch, remoteCalls, callVars>>

\* The caller has the value; the next call starts afresh.
FetchReturn ==
    /\ fpc = "done"
    /\ fpc' = "idle"
    /\ page' = <<>>
    /\ channelInfo' = EmptyName
    /\ msgIndex' = 0
    /\ messagesWithThreads' = <<>>
    /\ replyFetch' = <<>>
    /\ fetchResult' = [ok |-> TRUE, messages |-> <<>>]
    /\ remoteCalls' = <<>>
    /\ UNCHANGED <<storeVars, slack_tokens, envToken, lastOp, storeCall, tokenVars, callVars>>

MessagesInit ==
    /\ channels = {}
    /\ users = {}
    /\ channel_memberships = {}
    /\ dm_conversations = {}
    /\ slack_tokens = {StoredToken}
    /\ envToken = NoToken
    /\ lastOp = NoOp
    /\ storeCall = NoCall
    /\ TokensIdle
    /\ FetchIdle
    /\ CallsIdle

MessagesNext ==
    \/ FetchHistory
    \/ FetchChannelInfo
    \/ ProcessMessage
    \/ SortAndReturn
    \/ FetchReturn

SpecMessages == MessagesInit /\ [][MessagesNext]_vars

(***************************************************************************)
(* Properties of fetchLatestMessagesFromChannel (specification             *)
(* SpecMessages).                                                          *)
(***************************************************************************)
Returned == fpc = "done" /\ fetchResult.ok

\* The entry of the returned sequence made from message i of the page.
EntriesOf(i) ==
    {k \in 1..Len(fetchResult.messages) : fetchResult.messages[k].text = page[i].text}

\* C5: the sequence fetchLatestMessagesFromChannel returns is in ascending
\* order of timestamp, whatever the order of the history page, and is a
\* permutation of the messages of the page.
C5_Chronological ==
    Returned =>
        /\ \A k \in 1..(Len(fetchResult.messages) - 1) :
              ParseTs(fetchResult.messages[k].ts) <= ParseTs(fetchResult.messages[k + 1].ts)
        /\ Len(fetchResult.messages) = Len(page)
        /\ \A i \in 1..Len(page) :
              \E k \in 1..Len(fetchResult.messages) :
                 /\ EntriesOf(i) = {k}
                 /\ fetchResult.messages[k].ts = page[i].ts
                 /\ fetchResult.messages[k].reply_count = page[i].reply_count

\* C5's case: a page of several messages, newest first, as the remote API
\* orders it, was returned.
C5_Witness ==
    /\ Returned
    /\ Len(page) >= 2
    /\ \A i \in 1..(Len(page) - 1) : ParseTs(page[i].ts) > ParseTs(page[i + 1].ts)
    /\ ParseTs(page[Len(page)].ts) > 0

\* The reply fetch of message i answered the parent followed by its
\* reply_count replies.
FullAnswer(i) ==
    /\ page[i].reply_count > 0
    /\ replyFetch[i].asked
    /\ replyFetch[i].ok
    /\ Len(replyFetch[i].messages) = page[i].reply_count + 1
    /\ replyFetch[i].messages[1].ts = page[i].ts

\* C6: a message with reply_count R > 0 whose reply fetch answered the
\* parent followed by its R replies carries exactly R nested replies, the
\* parent is not among them, and each has parent_message_ts = the parent's ts.
C6_ThreadNesting ==
    Returned =>
        \A i \in 1..Len(page) :
           FullAnswer(i) =>
              \A k \in EntriesOf(i) :
                 LET nested == fetchResult.messages[k].thread_replies
                 IN  /\ Len(nested) = page[i].reply_count
                     /\ \A n \in 1..Len(nested) :
                           /\ nested[n].ts # page[i].ts
                           /\ nested[n].text # page[i].text
                           /\ nested[n].parent_message_ts = page[i].ts

\* C6's case: a parent with the largest reply count got its full answer.
C6_Witness ==
    /\ Returned
    /\ \E i \in 1..Len(page) : FullAnswer(i) /\ page[i].reply_count = MaxReplies

\* C7: the returned sequence has one top-level entry per message of the
\* page and no other entry; an entry whose reply_count is zero or absent
\* carries an empty thread_replies list.
C7_NoFlattening ==
    Returned =>
        /\ Len(fetchResult.messages) = Len(page)
        /\ \A i \in 1..Len(page) : Cardinality(EntriesOf(i)) = 1
        /\ \A k \in 1..Len(fetchResult.messages) :
              /\ fetchResult.messages[k].is_thread_reply = FALSE
              /\ \E i \in 1..Len(page) : page[i].text = fetchResult.messages[k].text
              /\ fetchResult.messages[k].reply_count = 0 =>
                    fetchResult.messages[k].thread_replies = <<>>

\* C7's case (scenario B): of several messages only the last has replies
\* (reply_count 2); the result has one entry per message and only that
\* message's entry carries nested replies, two of them.
C7_Witness ==
    /\ Returned
    /\ Len(page) >= 2
    /\ page[Len(page)].reply_count = 2
    /\ \A i \in 1..(Len(page) - 1) : page[i].reply_count = 0
    /\ Len(fetchResult.messages) = Len(page)
    /\ \A k \in EntriesOf(Len(page)) : Len(fetchResult.messages[k].thread_replies) = 2
    /\ \A i \in 1..(Len(page) - 1) : \A k \in EntriesOf(i) :
          fetchResult.messages[k].thread_replies = <<>>

(***************************************************************************)
(* Properties of the directory tools (specification Spec).                 *)
(***************************************************************************)
\* The member ids the remote API reported for one listed conversation.
ReportedMembers(r) == IF IsIm(r.id) THEN {ConvUser(r.id)} ELSE Range(r.list)

RefreshStored ==
    lastOp.op = "refresh" /\ lastOp.error \notin {"no_token", "list_failed", "fetch_failed"}

NoDeletedProfile ==
    \A i \in 1..Len(lastOp.conversations) :
       \A j \in 1..Len(lastOp.conversations[i].member_details) :
          ~ lastOp.conversations[i].member_details[j].is_deleted

\* C1: after a refresh has completed, getChannelMembers(C) returns exactly
\* the member set the remote API reported for C in that refresh, also when
\* the set shrank (to empty included) since the previous refresh.  Stated for
\* the refreshes in which no profile came back flagged deleted, so that the
\* is_deleted filter of getChannelMembers plays no part.
C1_MembershipReplace ==
    (RefreshStored /\ lastOp.ok /\ NoDeletedProfile) =>
        \A i \in 1..Len(lastOp.resp) :
           (IsIm(lastOp.resp[i].id) \/ lastOp.resp[i].members = "ok") =>
               {u.id : u \in getChannelMembers(users, channel_memberships,
                                               lastOp.resp[i].id)}
                   = ReportedMembers(lastOp.resp[i])

\* Every profile written into the Map by the last refresh, in writing order.
RECURSIVE AllDetails(_)
AllDetails(conversations) ==
    IF conversations = <<>> THEN <<>>
    ELSE (IF Head(conversations).details_defined
          THEN Head(conversations).member_details ELSE <<>>)
         \o AllDetails(Tail(conversations))

ConversationsWith(u) ==
    {i \in 1..Len(lastOp.conversations) :
        \E j \in 1..Len(lastOp.conversations[i].member_details) :
           lastOp.conversations[i].member_details[j].id = u}

\* C4: a user found in the member details of the conversations of a refresh
\* is once in the user list the refresh produces, with the profile written
\* last for that id, and has exactly one row in the users table afterwards.
C4_Dedup ==
    RefreshStored =>
        LET written == AllDetails(lastOp.conversations)
        IN  \A u \in UserIds :
               LET at == {i \in 1..Len(written) : written[i].id = u}
                   last == CHOOSE i \in at : \A j \in at : j <= i
                   got == {i \in 1..Len(lastOp.users) : lastOp.users[i].id = u}
               IN  at # {} =>
                      /\ Cardinality(got) = 1
                      /\ \A i \in got : lastOp.users[i] = written[last]
                      /\ Cardinality({r \in users : r.id = u}) = 1

\* C4's case: one user in two conversations of a refresh, with two different
\* profiles (a full profile and the stub of a failed fetch).
C4_Witness ==
    /\ RefreshStored
    /\ \E u \in UserIds :
          /\ Cardinality(ConversationsWith(u)) >= 2
          /\ \E i, j \in 1..Len(AllDetails(lastOp.conversations)) :
                /\ i < j
                /\ AllDetails(lastOp.conversations)[i].id = u
                /\ AllDetails(lastOp.conversations)[j].id = u
                /\ AllDetails(lastOp.conversations)[i] # AllDetails(lastOp.conversations)[j]

\* The cached one-to-one conversations whose cached members include user u.
CachedDMChannelsOf(u) ==
    {c.id : c \in {x \in channels :
                      /\ x.type = "im"
                      /\ \E cm \in channel_memberships :
                            cm.channel_id = x.id /\ cm.user_id = u
                      /\ \E r \in users : r.id = u /\ ~ r.is_deleted}}

EnvTokens == {NoToken, "xoxb-env"}

\* The rows a user can have in slack_tokens.
TokenRowsOf(u) ==
    {[id |-> u[2], team_id |-> <<"T", 1>>, user_id |-> u, access_token |-> tok,
      updated_at |-> t, is_active |-> a] :
        tok \in AccessTokens, t \in 0..MaxClock, a \in BOOLEAN}

\* The slack_tokens tables over the users us: at most one row per
\* (team_id, user_id).
RECURSIVE TokenTables(_)
TokenTables(us) ==
    IF us = {} THEN {{}}
    ELSE LET u == CHOOSE x \in us : TRUE
             rest == TokenTables(us \ {u})
         IN  rest \cup {t \cup {r} : t \in rest, r \in TokenRowsOf(u)}

CredInit ==
    /\ channels = {}
    /\ users = {}
    /\ channel_memberships = {}
    /\ dm_conversations = {}
    /\ slack_tokens \in TokenTables(UserIds)
    /\ envToken \in EnvTokens
    /\ lastOp = NoOp
    /\ storeCall = NoCall
    /\ TokensIdle
    /\ FetchIdle
    /\ CallsIdle

CredNext ==
    \/ SendSlackMessageTool
    \/ ReturnResult

SpecCred == CredInit /\ [][CredNext]_vars

ActiveTokens == {r \in slack_tokens : r.is_active}

\* C11: a tool call given no credential uses the active stored token with
\* the greatest updated_at; when there is no active stored token and no
\* SLACK_BOT_TOKEN the call fails with the no-token error and makes no
\* remote API call.
C11_CredentialResolution ==
    lastOp.op # "none" =>
        /\ ActiveTokens # {} =>
              \E r \in ActiveTokens :
                 /\ \A q \in ActiveTokens : q.updated_at <= r.updated_at
                 /\ lastOp.token = r.access_token
        /\ (ActiveTokens = {} /\ envToken = NoToken) =>
              /\ ~ lastOp.ok
              /\ lastOp.error = "no_token"
              /\ lastOp.postedTo = NoId
              /\ lastOp.resp = <<>>

\* C11's case: two active stored tokens, the newer one with another access
\* token than the older, and a message sent with the newer.
C11_Witness ==
    /\ lastOp.op = "send"
    /\ lastOp.postedTo # NoId
    /\ \E r, q \in ActiveTokens :
          /\ q.updated_at < r.updated_at
          /\ q.access_token # r.access_token
          /\ lastOp.token = r.access_token


(***************************************************************************)
(* The CallTool handler await by await (specification SpecAsync).  Each    *)
(* caller's request runs as its own chain of promises: the remote fetch is *)
(* one await, every SQL statement of a store method is one await, and the  *)
(* four store calls of the Promise.all run side by side.  The timer of     *)
(* executeWithTimeout can fire at any await.                               *)
(***************************************************************************)
dirVars == <<slack_tokens, envToken, lastOp, storeCall, tokenVars, fetchVars>>

ToolNames == {"refresh_all_slack_data", "no_such_tool"}

\* What the remote API answers in these runs: one conversation is listed,
\* every profile fetch and every member listing succeeds.
AsyncResponses ==
    {resp \in RemoteResponses :
        /\ Len(resp) = 1
        /\ \A i \in 1..Len(resp) :
           /\ resp[i].members \in {"none", "ok"}
           /\ \A u \in DOMAIN resp[i].info : resp[i].info[u] = "ok"}

\* The statements of storeChannels, storeUsers and storeDMConversations.
UpsertStatements(tableName, rows) ==
    [i \in 1..Len(rows) |-> [table |-> tableName, op |-> "upsert", row |-> rows[i]]]

\* [...new Set(memberships.map(m => m.channel_id))]: first occurrences, in order.
RECURSIVE DistinctChannelIds(_)
DistinctChannelIds(memberships) ==
    IF memberships = <<>> THEN <<>>
    ELSE LET rest == DistinctChannelIds(SubSeq(memberships, 1, Len(memberships) - 1))
             last == memberships[Len(memberships)].channel_id
         IN  IF last \in Range(rest) THEN rest ELSE Append(rest, last)

\* The statements of storeChannelMemberships: a DELETE per channel id, then
\* an INSERT per row.
MembershipStatements(memberships) ==
    LET ids == DistinctChannelIds(memberships)
    IN  [i \in 1..Len(ids) |->
            [table |-> "channel_memberships", op |-> "delete",
             row |-> [channel_id |-> ids[i], user_id |-> NoId]]]
        \o [i \in 1..Len(memberships) |->
               [table |-> "channel_memberships", op |-> "insert", row |-> memberships[i]]]

\* One statement run by SQLite against its table.
ExecStatement(st, table) ==
    IF st.op = "upsert" THEN InsertOrReplace(table, st.row)
    ELSE IF st.op = "delete"
    THEN [ok |-> TRUE, table |-> {r \in table : r.channel_id # st.row.channel_id}]
    ELSE IF \E r \in table : r.channel_id = st.row.channel_id /\ r.user_id = st.row.user_id
    THEN [ok |-> FALSE, table |-> table]
    ELSE [ok |-> TRUE, table |-> table \cup {st.row}]

Tables ==
    [channels |-> channels, users |-> users,
     channel_memberships |-> channel_memberships, dm_conversations |-> dm_conversations]

StoreTasks == 1..4

\* A handler without its catch: what the operation throws leaves the handler.
Rethrow(outcome) ==
    IF outcome.thrown
    THEN [kind |-> "exception", isError |-> FALSE, text |-> outcome.text]
    ELSE [kind |-> "result", isError |-> FALSE, text |-> outcome.text]

\* try { return await executeWithTimeout(...) } catch (error) { return
\* { content: [... `Error: ${error.message}`], isError: true } }
HandlerCatch(outcome) ==
    IF outcome.thrown
    THEN [kind |-> "error", isError |-> TRUE, text |-> outcome.text]
    ELSE [kind |-> "result", isError |-> FALSE, text |-> outcome.text]

\* Promise.race: the first promise to settle decides, later ones are ignored.
Race(answered, payload) == IF answered.kind = "none" THEN payload ELSE answered

TaskDone(r, k) == ~ r.failed[k] /\ r.next[k] > Len(r.stmts[k])
AnyFailed(r) == \E k \in StoreTasks : r.failed[k]
AllDone(r) == \A k \in StoreTasks : TaskDone(r, k)

\* Promise.all settles when one store call rejects or all four resolve; the
\* store calls that are still running go on either way.
AfterStatement(r) ==
    [r EXCEPT !.settled = r.settled \/ AnyFailed(r) \/ AllDone(r),
              !.pc = IF \A k \in StoreTasks : r.failed[k] \/ TaskDone(r, k)
                     THEN "done" ELSE "storing"]

RefreshOutcome(r) ==
    IF AnyFailed(r) THEN [thrown |-> TRUE, text |-> "storage"]
    ELSE [thrown |-> FALSE, text |-> "refreshed"]

\* What the caller holds after the operation of r0 became r1.
Answer(answered, r0, r1) ==
    IF ~ r0.settled /\ r1.settled
    THEN Race(answered, HandlerCatch(RefreshOutcome(r1)))
    ELSE answered

\* The handler up to its first remote call: the switch on the tool name and
\* getTokenAndChannel.
CallTool(p) ==
    /\ req[p].pc = "idle"
    /\ response[p].kind = "none"
    /\ \E name \in ToolNames :
         IF name = "no_such_tool"
         THEN /\ req' = [req EXCEPT ![p] = [NoReq EXCEPT !.pc = "done", !.tool = name,
                                                          !.settled = TRUE]]
              /\ response' = [response EXCEPT ![p] =
                                 HandlerCatch([thrown |-> TRUE, text |-> "unknown_tool"])]
         ELSE \E cred \in getTokenAndChannel(slack_tokens, envToken) :
                IF cred.token = NoToken
                THEN /\ req' = [req EXCEPT ![p] = [NoReq EXCEPT !.pc = "done",
                                                       !.tool = name, !.settled = TRUE]]
                     /\ response' = [response EXCEPT ![p] =
                                        HandlerCatch([thrown |-> TRUE, text |-> "no_token"])]
                ELSE /\ req' = [req EXCEPT ![p] = [NoReq EXCEPT !.pc = "fetching",
                                                       !.tool = name]]
                     /\ UNCHANGED response
    /\ UNCHANGED <<storeVars, dirVars, threadCall, dmQuery>>

\* refreshAllSlackData resolves or rejects; on its result the four row sets
\* are built and the four store calls are started.
FetchDone(p) ==
    /\ req[p].pc = "fetching"
    /\ \/ /\ req' = [req EXCEPT ![p].pc = "done", ![p].settled = TRUE]
          /\ response' = [response EXCEPT ![p] =
                             Race(response[p],
                                  HandlerCatch([thrown |-> TRUE, text |-> "list_failed"]))]
       \/ \E resp \in AsyncResponses, cred \in getTokenAndChannel(slack_tokens, envToken) :
             LET result == refreshAllSlackData(resp)
                 storedChannels == [i \in 1..Len(result.conversations) |->
                                       StoredChannelOf(result.conversations[i])]
                 storedUsers == [i \in 1..Len(result.users) |->
                                    StoredUserOf(result.users[i])]
                 memberships == MembershipsOf(result.conversations)
                 dmConversations == DMConversationsOf(result, cred.user_id)
                 r0 == [req[p] EXCEPT
                          !.resp = resp,
                          !.stmts = <<UpsertStatements("channels", storedChannels),
                                      UpsertStatements("users", storedUsers),
                                      MembershipStatements(memberships),
                                      UpsertStatements("dm_conversations", dmConversations)>>,
                          !.next = [k \in StoreTasks |-> 1],
                          !.failed = [k \in StoreTasks |-> FALSE],
                          !.before = channel_memberships,
                          !.othersDone = \A q \in Callers \ {p} : req[q].pc = "done"]
                 r1 == AfterStatement(r0)
             IN  /\ req' = [req EXCEPT ![p] = r1]
                 /\ response' = [response EXCEPT ![p] = Answer(response[p], r0, r1)]
    /\ UNCHANGED <<storeVars, dirVars, threadCall, dmQuery>>

\* The next statement of one store call of the Promise.all.
StoreStatement(p, k) ==
    /\ req[p].pc = "storing"
    /\ ~ req[p].failed[k]
    /\ req[p].next[k] <= Len(req[p].stmts[k])
    /\ LET st == req[p].stmts[k][req[p].next[k]]
           done == ExecStatement(st, Tables[st.table])
           r0 == IF done.ok THEN [req[p] EXCEPT !.next[k] = @ + 1]
                 ELSE [req[p] EXCEPT !.failed[k] = TRUE]
           r1 == AfterStatement(r0)
       IN  /\ channels' = IF st.table = "channels" THEN done.table ELSE channels
           /\ users' = IF st.table = "users" THEN done.table ELSE users
           /\ channel_memberships' = IF st.table = "channel_memberships"
                                     THEN done.table ELSE channel_memberships
           /\ dm_conversations' = IF st.table = "dm_conversations"
                                  THEN done.table ELSE dm_conversations
           /\ req' = [req EXCEPT ![p] = r1]
           /\ response' = [response EXCEPT ![p] = Answer(response[p], req[p], r1)]
    /\ UNCHANGED <<dirVars, threadCall, dmQuery>>

\* The timer of executeWithTimeout fires first: the race rejects, the handler
\* answers; nothing stops the operation.
Timeout(p) ==
    /\ req[p].pc \in {"fetching", "storing"}
    /\ response[p].kind = "none"
    /\ response' = [response EXCEPT ![p] =
                       Race(response[p],
                            HandlerCatch([thrown |-> TRUE, text |-> "timeout"]))]
    /\ UNCHANGED <<storeVars, dirVars, req, threadCall, dmQuery>>

AsyncInit ==
    /\ channels = {}
    /\ users = {}
    /\ channel_memberships = {}
    /\ dm_conversations = {}
    /\ slack_tokens \in {{}, {StoredToken}}
    /\ envToken = NoToken
    /\ lastOp = NoOp
    /\ storeCall = NoCall
    /\ TokensIdle
    /\ FetchIdle
    /\ CallsIdle

AsyncNext ==
    \/ \E p \in Callers : CallTool(p)
    \/ \E p \in Callers : FetchDone(p)
    \/ \E p \in Callers, k \in StoreTasks : StoreStatement(p, k)
    \/ \E p \in Callers : Timeout(p)

SpecAsync == AsyncInit /\ [][AsyncNext]_vars


(***************************************************************************)
(* Properties of the CallTool handler (specification SpecAsync).           *)
(***************************************************************************)
ErrorTexts == {"unknown_tool", "no_token", "list_failed", "storage", "timeout"}

\* A payload the handler may return: a normal result, or an error payload
\* with isError = true and the cause as its text.
WellFormed(payload) ==
    \/ payload.kind = "result" /\ ~ payload.isError
    \/ payload.kind = "error" /\ payload.isError /\ payload.text \in ErrorTexts

\* C12: every tool call ends in exactly one outcome returned to the caller,
\* a normal result or an error payload (isError = true, the cause as text):
\* what is returned is never an exception, a call whose operation has ended
\* (unknown tool, missing credential, remote failure, storage failure,
\* success) has been answered, and an answer once given is never replaced,
\* whatever the operation does after a timeout.
C12_ToolOutcome ==
    [][\A p \in Callers :
          /\ response'[p].kind # "none" => WellFormed(response'[p])
          /\ req'[p].settled => response'[p].kind # "none"
          /\ response[p].kind # "none" => response'[p] = response[p]]_vars

\* C12's case: one caller was answered with the timeout error, the other with
\* a storage error, and both operations have run to their end.
C12_Witness ==
    /\ \A p \in Callers : req[p].pc = "done"
    /\ \E p, q \in Callers :
          /\ response[p].kind = "error" /\ response[p].text = "timeout"
          /\ response[q].kind = "error" /\ response[q].text = "storage"


(***************************************************************************)
(* slack.ts: fetchThreadReplies (specification SpecThread).  The thread of *)
(* a parent is the parent followed by its replies; conversations.replies   *)
(* answers the first `limit` messages of it, an empty list, or fails.      *)
(***************************************************************************)
MaxLimit == 3

\* The thread of the message parentTs with n replies, as the remote keeps it.
ThreadOf(parentTs, n) ==
    <<[ts |-> parentTs, text |-> <<"m", 0>>]>>
    \o [k \in 1..n |-> [ts |-> <<parentTs[1] + MaxSec, k>>, text |-> <<"r", k>>]]

\* conversations.replies({channel, ts, limit}) on a thread.
RemoteReplies(thread, limit) ==
    SubSeq(thread, 1, IF limit < Len(thread) THEN limit ELSE Len(thread))

\* Every message marked as a reply, the parent too.
AlwaysReply(msg, threadTs) == TRUE

\* is_thread_reply: msg.ts !== threadTs
IsThreadReply(msg, threadTs) == msg.ts # threadTs

\* replies.messages.map(msg => ({...msg, conversation_name, thread_ts,
\* is_thread_reply}))
ThreadMessagesWithContext(messages, channelId, name, threadTs) ==
    [i \in 1..Len(messages) |->
        [ts |-> messages[i].ts, text |-> messages[i].text,
         conversation_id |-> channelId,
         conversation_name |-> IF name = EmptyName THEN channelId ELSE name,
         thread_ts |-> threadTs,
         is_thread_reply |-> IsThreadReply(messages[i], threadTs)]]

\* The call up to the answer of conversations.replies: a failure is thrown
\* on, an empty list returns [].
FetchThreadRepliesCall ==
    /\ threadCall.pc = "idle"
    /\ \E channel \in ConvIds, parentTs \in TsValues \ {NoTs}, limit \in 1..MaxLimit :
         LET call == [NoThreadCall EXCEPT !.channel = channel, !.parentTs = parentTs,
                                          !.limit = limit, !.requested = limit]
         IN  \/ threadCall' = [call EXCEPT !.pc = "done", !.ok = FALSE]
             \/ threadCall' = [call EXCEPT !.pc = "done"]
             \/ \E n \in 0..MaxReplies :
                   threadCall' = [call EXCEPT
                                    !.pc = "info", !.threadSize = n + 1,
                                    !.remote = RemoteReplies(ThreadOf(parentTs, n),
                                                             call.requested)]
    /\ UNCHANGED <<storeVars, dirVars, req, response, dmQuery>>

\* conversations.info resolves or fails; the messages get their context.
ThreadChannelInfo ==
    /\ threadCall.pc = "info"
    /\ \E infoOk \in BOOLEAN :
          threadCall' = [threadCall EXCEPT
                           !.pc = "done", !.infoOk = infoOk,
                           !.messages =
                              ThreadMessagesWithContext(
                                 threadCall.remote, threadCall.channel,
                                 IF infoOk THEN <<"chan", threadCall.channel[2]>>
                                 ELSE EmptyName,
                                 threadCall.parentTs)]
    /\ UNCHANGED <<storeVars, dirVars, req, response, dmQuery>>

ThreadReturn ==
    /\ threadCall.pc = "done"
    /\ threadCall' = NoThreadCall
    /\ UNCHANGED <<storeVars, dirVars, req, response, dmQuery>>

ThreadInit ==
    /\ channels = {}
    /\ users = {}
    /\ channel_memberships = {}
    /\ dm_conversations = {}
    /\ slack_tokens = {StoredToken}
    /\ envToken = NoToken
    /\ lastOp = NoOp
    /\ storeCall = NoCall
    /\ TokensIdle
    /\ FetchIdle
    /\ CallsIdle

ThreadNext ==
    \/ FetchThreadRepliesCall
    \/ ThreadChannelInfo
    \/ ThreadReturn

SpecThread == ThreadInit /\ [][ThreadNext]_vars

\* C13: fetchThreadReplies asks the remote for at most `limit` messages of
\* the thread; when the remote answers a non-empty list the call returns,
\* whether or not the channel info resolved, that whole list in the remote's
\* order, the parent first, with is_thread_reply false exactly for the
\* element whose ts is parentTs.
C13_ThreadReplies ==
    /\ threadCall.pc # "idle" =>
          /\ threadCall.requested = threadCall.limit
          /\ Len(threadCall.remote) <= threadCall.limit
    /\ (threadCall.pc = "done" /\ threadCall.remote # <<>>) =>
          /\ threadCall.ok
          /\ Len(threadCall.messages) = Len(threadCall.remote)
          /\ threadCall.messages[1].ts = threadCall.parentTs
          /\ \A i \in 1..Len(threadCall.remote) :
                /\ threadCall.messages[i].ts = threadCall.remote[i].ts
                /\ threadCall.messages[i].text = threadCall.remote[i].text
                /\ threadCall.messages[i].is_thread_reply = (i # 1)
                /\ threadCall.messages[i].is_thread_reply
                      = (threadCall.messages[i].ts # threadCall.parentTs)

\* C13's case: a thread longer than the limit, its first `limit` messages
\* (parent and replies) returned although the channel info failed.
C13_Witness ==
    /\ threadCall.pc = "done"
    /\ threadCall.threadSize > threadCall.limit
    /\ threadCall.limit >= 2
    /\ ~ threadCall.infoOk
    /\ Len(threadCall.messages) = threadCall.limit


(***************************************************************************)
(* database.ts: the DM listings (specification SpecDMs).  The table holds  *)
(* any rows storeDMConversations and updateDMPriority can have left; a     *)
(* listing is one of the row orders its ORDER BY allows.                   *)
(***************************************************************************)
DMIds == {<<"D", 1>>, <<"D", 2>>, <<"D", 3>>}
Priorities == {0, 100}

\* The rows one conversation id can have.
DMRowsOf(d) ==
    {[id |-> d, type |-> t, is_open |-> o, priority |-> p, updated_at |-> u] :
        t \in {"im", "mpim"}, o \in BOOLEAN, p \in Priorities, u \in 0..MaxClock}

\* The states of dm_conversations (PRIMARY KEY id) over the ids of ds.
RECURSIVE DMTables(_)
DMTables(ds) ==
    IF ds = {} THEN {{}}
    ELSE LET d == CHOOSE x \in ds : TRUE
             rest == DMTables(ds \ {d})
         IN  rest \cup {t \cup {r} : t \in rest, r \in DMRowsOf(d)}

\* ORDER BY priority ASC, updated_at ASC.
OrderedBeforeAscending(a, b) ==
    \/ a.priority < b.priority
    \/ a.priority = b.priority /\ a.updated_at < b.updated_at

\* ORDER BY priority DESC, updated_at DESC: a must come before b.
OrderedBefore(a, b) ==
    \/ a.priority > b.priority
    \/ a.priority = b.priority /\ a.updated_at > b.updated_at

\* The row orders SQLite may answer for the selected rows: rows that the
\* ORDER BY does not tell apart come in any order.
RECURSIVE Listings(_)
Listings(rows) ==
    IF rows = {} THEN {<<>>}
    ELSE UNION {{<<r>> \o rest : rest \in Listings(rows \ {r})} :
                   r \in {x \in rows : \A y \in rows : ~ OrderedBefore(y, x)}}

getAllDMs(table) == Listings(table)

getOpenDMs(table) == Listings({r \in table : r.is_open})

getDMsByType(table, type) == Listings({r \in table : r.type = type})

GetAllDMsCall ==
    /\ dmQuery.fn = "none"
    /\ \E rows \in getAllDMs(dm_conversations) :
          dmQuery' = [fn |-> "getAllDMs", type |-> "", rows |-> rows]
    /\ UNCHANGED <<storeVars, dirVars, req, response, threadCall>>

GetOpenDMsCall ==
    /\ dmQuery.fn = "none"
    /\ \E rows \in getOpenDMs(dm_conversations) :
          dmQuery' = [fn |-> "getOpenDMs", type |-> "", rows |-> rows]
    /\ UNCHANGED <<storeVars, dirVars, req, response, threadCall>>

GetDMsByTypeCall ==
    /\ dmQuery.fn = "none"
    /\ \E type \in {"im", "mpim"} :
       \E rows \in getDMsByType(dm_conversations, type) :
          dmQuery' = [fn |-> "getDMsByType", type |-> type, rows |-> rows]
    /\ UNCHANGED <<storeVars, dirVars, req, response, threadCall>>

DMQueryReturn ==
    /\ dmQuery.fn # "none"
    /\ dmQuery' = NoDMQuery
    /\ UNCHANGED <<storeVars, dirVars, req, response, threadCall>>

DMInit ==
    /\ channels = {}
    /\ users = {}
    /\ channel_memberships = {}
    /\ dm_conversations \in DMTables(DMIds)
    /\ slack_tokens = {}
    /\ envToken = NoToken
    /\ lastOp = NoOp
    /\ storeCall = NoCall
    /\ TokensIdle
    /\ FetchIdle
    /\ CallsIdle

DMNext ==
    \/ GetAllDMsCall
    \/ GetOpenDMsCall
    \/ GetDMsByTypeCall
    \/ DMQueryReturn

SpecDMs == DMInit /\ [][DMNext]_vars

\* The rows the listing of dmQuery has to return.
SelectedDMs ==
    IF dmQuery.fn = "getOpenDMs" THEN {r \in dm_conversations : r.is_open}
    ELSE IF dmQuery.fn = "getDMsByType"
    THEN {r \in dm_conversations : r.type = dmQuery.type}
    ELSE dm_conversations

\* C14: getAllDMs, getOpenDMs and getDMsByType return their rows by priority
\* descending and, among equal priorities, by updated_at descending;
\* getOpenDMs returns exactly the rows with is_open = 1, getDMsByType(t)
\* exactly the rows of type t, getAllDMs every row, each once.
C14_DMOrder ==
    dmQuery.fn # "none" =>
        /\ Range(dmQuery.rows) = SelectedDMs
        /\ Len(dmQuery.rows) = Cardinality(SelectedDMs)
        /\ \A i, j \in 1..Len(dmQuery.rows) :
              i < j =>
                 \/ dmQuery.rows[i].priority > dmQuery.rows[j].priority
                 \/ /\ dmQuery.rows[i].priority = dmQuery.rows[j].priority
                    /\ dmQuery.rows[i].updated_at >= dmQuery.rows[j].updated_at

\* C14's case: the open rows listed from a table that also holds a closed
\* row: two rows of one priority, the more recent first.
C14_Witness ==
    /\ dmQuery.fn = "getOpenDMs"
    /\ \E r \in dm_conversations : ~ r.is_open
    /\ Len(dmQuery.rows) = 2
    /\ dmQuery.rows[1].priority = dmQuery.rows[2].priority
    /\ dmQuery.rows[1].updated_at > dmQuery.rows[2].updated_at


TimedOut(p) == response[p].kind = "error" /\ response[p].text = "timeout"

\* C15: once a caller has been answered with the timeout error, the
\* operation that timed out runs no further statement against the store.
C15_TimeoutContainment ==
    [][\A p \in Callers :
          TimedOut(p) =>
             \A k \in DOMAIN req[p].next : req'[p].next[k] = req[p].next[k]]_vars


\* The member list the refresh of caller p captured for conversation c, as a
\* set of sequences: empty when its response does not list c.
CapturedLists(p, c) ==
    {fetchChannelsWithMembers(req[p].resp)[i].member_ids :
        i \in {j \in 1..Len(req[p].resp) : req[p].resp[j].id = c}}

StoredMembers(c) == {r.user_id : r \in {x \in channel_memberships : x.channel_id = c}}

\* C16: when two refreshes that captured different member lists for a
\* channel have both finished, however their statements interleaved, the
\* stored membership set of the channel is the member list of one of the
\* two, never a union or mixture.
C16_NoMixedMemberLists ==
    \A c \in ConvIds :
       \A l1 \in CapturedLists(1, c), l2 \in CapturedLists(2, c) :
          (/\ req[1].pc = "done"
           /\ req[2].pc = "done"
           /\ Range(l1) # Range(l2)) =>
              StoredMembers(c) \in {Range(l1), Range(l2)}


\* The request of caller p runs its store calls with no other request
\* writing: the others had ended before, or have not got to their store calls.
WritesAlone(p) ==
    \/ req[p].othersDone
    \/ \A q \in Callers \ {p} : req[q].pc \in {"idle", "fetching"}

PreviousMembers(p, c) == {r.user_id : r \in {x \in req[p].before : x.channel_id = c}}

\* C17: from the start of a storeChannelMemberships call that replaces the
\* edges of channel C, every state shows C with its complete previous
\* membership set or its complete new one, never an empty or partly inserted
\* set; and when an INSERT of the call fails, the previous set is still stored.
C17_AtomicReplacement ==
    \A p \in Callers, c \in ConvIds :
       \A new \in CapturedLists(p, c) :
          (req[p].pc \in {"storing", "done"} /\ new # <<>>) =>
             /\ WritesAlone(p) =>
                   StoredMembers(c) \in {PreviousMembers(p, c), Range(new)}
             /\ req[p].failed[3] => PreviousMembers(p, c) \subseteq StoredMembers(c)


\* The writes a payload names as done: the success text counts the rows of
\* all four writes, the error text is the message of the error alone.
WritesNamed(payload) == IF payload.kind = "result" THEN StoreTasks ELSE {}

\* C18: when one of the four store calls of a refresh fails, the other three
\* have run to completion by the time the caller is answered, and the answer
\* names the writes that succeeded.
C18_FourWayPersist ==
    \A p \in Callers :
       (response[p].kind = "error" /\ response[p].text = "storage") =>
          /\ \A k \in StoreTasks : ~ req[p].failed[k] => TaskDone(req[p], k)
          /\ WritesNamed(response[p]) = {k \in StoreTasks : TaskDone(req[p], k)}


(***************************************************************************)
(* Failure isolation in fetchLatestMessagesFromChannel (specification      *)
(* SpecMessages).                                                          *)
(***************************************************************************)
FetchFailed(i) == replyFetch[i].asked /\ ~ replyFetch[i].ok

\* C19: when the reply fetch of a thread parent fails, the call still
\* returns every message of the page; the failing parent carries an empty
\* thread_replies list and every parent whose fetch succeeded carries every
\* reply of its answer.
C19_ThreadFailureIsolation ==
    (fpc = "done" /\ \E i \in 1..Len(replyFetch) : FetchFailed(i)) =>
        /\ fetchResult.ok
        /\ Len(fetchResult.messages) = Len(page)
        /\ \A i \in 1..Len(page) :
              /\ EntriesOf(i) # {}
              /\ \A k \in EntriesOf(i) :
                    LET nested == fetchResult.messages[k].thread_replies
                    IN  /\ FetchFailed(i) => nested = <<>>
                        /\ (replyFetch[i].asked /\ replyFetch[i].ok
                            /\ replyFetch[i].messages # <<>>) =>
                              /\ Len(nested) = Len(replyFetch[i].messages) - 1
                              /\ \A n \in 1..Len(nested) :
                                    /\ nested[n].ts = replyFetch[i].messages[n + 1].ts
                                    /\ nested[n].text = replyFetch[i].messages[n + 1].text

\* C19's case: of two thread parents the fetch of the first failed and the
\* fetch of the second answered its replies, which the result carries.
C19_Witness ==
    /\ Returned
    /\ Len(page) >= 2
    /\ FetchFailed(1)
    /\ replyFetch[2].asked /\ replyFetch[2].ok
    /\ Len(replyFetch[2].messages) = MaxReplies + 1
    /\ \A k \in EntriesOf(2) : Len(fetchResult.messages[k].thread_replies) = MaxReplies


(***************************************************************************)
(* Profile failures in a refresh (specification Spec).                     *)
(***************************************************************************)
\* The conversations of the last response whose members were listed, and
\* the profile fetches made for them.
Listed(i) == IsIm(lastOp.resp[i].id) \/ lastOp.resp[i].members = "ok"

FailedFetches ==
    {<<i, u>> \in (1..Len(lastOp.resp)) \X UserIds :
        /\ Listed(i)
        /\ u \in ReportedMembers(lastOp.resp[i])
        /\ lastOp.resp[i].info[u] = "fail"}

IsStub(d, u) == d.id = u /\ d.name = u /\ d.is_deleted = FALSE

\* The entry conversation i carries for its member v is what users.info
\* answered for v there.
DetailAsFetched(i, v) ==
    \E j \in 1..Len(lastOp.conversations[i].member_ids) :
       /\ lastOp.conversations[i].member_ids[j] = v
       /\ LET d == lastOp.conversations[i].member_details[j]
          IN  IF lastOp.resp[i].info[v] = "fail" THEN IsStub(d, v)
              ELSE /\ d.id = v
                   /\ d.name = <<"name", v[2]>>
                   /\ d.is_deleted = (lastOp.resp[i].info[v] = "deleted")

EdgeStored(i, v) ==
    /\ \E n \in 1..Len(lastOp.memberships) :
          lastOp.memberships[n] = [channel_id |-> lastOp.resp[i].id, user_id |-> v]
    /\ [channel_id |-> lastOp.resp[i].id, user_id |-> v] \in channel_memberships

\* The last conversation of the response that lists u.
LastListing(u) ==
    CHOOSE i \in 1..Len(lastOp.resp) :
       /\ Listed(i) /\ u \in ReportedMembers(lastOp.resp[i])
       /\ \A k \in 1..Len(lastOp.resp) :
             (Listed(k) /\ u \in ReportedMembers(lastOp.resp[k])) => k <= i

\* What holds of every failed profile fetch (i, u) but the shape of u's entry
\* in the user set: the refresh completes, conversation i keeps u as a stub
\* and keeps its edge, u is in the user set and in the users table once, and
\* the other members of the conversation have their fetched profiles and edges.
StubKept(i, u) ==
    /\ lastOp.ok
    /\ DetailAsFetched(i, u)
    /\ EdgeStored(i, u)
    /\ Cardinality({k \in 1..Len(lastOp.users) : lastOp.users[k].id = u}) = 1
    /\ Cardinality({r \in users : r.id = u}) = 1
    /\ \A v \in ReportedMembers(lastOp.resp[i]) \ {u} :
          DetailAsFetched(i, v) /\ EdgeStored(i, v)

\* C20 as stated: whenever the profile fetch for a member of a conversation
\* fails, that member is in the user set as a stub (id known, is_deleted =
\* false), its edge is produced and stored, and the other members are
\* unaffected.
C20_Original ==
    RefreshStored =>
        \A f \in FailedFetches :
           /\ StubKept(f[1], f[2])
           /\ \A k \in 1..Len(lastOp.users) :
                 lastOp.users[k].id = f[2] => IsStub(lastOp.users[k], f[2])

\* C20 amended: as C20, but the member's entry in the user set is the stub
\* when the fetch that failed is the one of the last conversation listing the
\* member; otherwise it is the entry of that last conversation (the profile
\* fetched there, or a stub if that fetch failed too).
C20_ProfileFailureStub ==
    RefreshStored =>
        \A f \in FailedFetches :
           /\ StubKept(f[1], f[2])
           /\ \A k \in 1..Len(lastOp.users) :
                 lastOp.users[k].id = f[2] =>
                    /\ \E j \in 1..Len(lastOp.conversations[LastListing(f[2])].member_ids) :
                          lastOp.users[k]
                             = lastOp.conversations[LastListing(f[2])].member_details[j]
                    /\ lastOp.resp[LastListing(f[2])].info[f[2]] = "fail" =>
                          /\ IsStub(lastOp.users[k], f[2])
                          /\ \E r \in users : r.id = f[2] /\ r.name = f[2]
                                                 /\ r.is_deleted = FALSE

\* C20's case: a channel with two members, the profile fetch of one failed
\* and the other's succeeded; the first is stored as a stub, the second with
\* its profile, both edges are stored.
C20_Witness ==
    /\ RefreshStored
    /\ lastOp.ok
    /\ \E f \in FailedFetches :
          /\ ~ IsIm(lastOp.resp[f[1]].id)
          /\ \E v \in ReportedMembers(lastOp.resp[f[1]]) \ {f[2]} :
                lastOp.resp[f[1]].info[v] = "ok"
          /\ \E r \in users : r.id = f[2] /\ r.name = f[2] /\ ~ r.is_deleted
          /\ EdgeStored(f[1], f[2])

(***************************************************************************)
(* Properties of the refresh tool (specification Spec), continued.         *)
(***************************************************************************)
\* C21: when conversations.list fails (it throws or answers ok = false) the
\* refresh reports an error to the caller, issues no member-list or profile
\* fetch, and leaves channels, users, channel_memberships and
\* dm_conversations unchanged.
C21_FatalListFailure ==
    [][(lastOp'.op = "refresh" /\ lastOp'.list \in {"throw", "notok"}) =>
          /\ ~ lastOp'.ok
          /\ lastOp'.error = "list_failed"
          /\ lastOp'.resp = <<>>
          /\ UNCHANGED storeVars]_vars

\* C21's case: conversations.list answered ok = false to a refresh made
\* while the four tables held the rows of an earlier refresh.
C21_Witness ==
    /\ lastOp.op = "refresh"
    /\ lastOp.list = "notok"
    /\ lastOp.error = "list_failed"
    /\ channels # {}
    /\ users # {}
    /\ channel_memberships # {}
    /\ dm_conversations # {}

\* C22: for every conversation of kind 'im' of a refresh, the stored
\* dm_conversations row has as user_id the id of the other party (the
\* conversation's user, not null) and as user_name that user's name in the
\* deduplicated user set.
C22_DMCounterpart ==
    (RefreshStored /\ lastOp.ok) =>
        \A i \in 1..Len(lastOp.resp) :
           IsIm(lastOp.resp[i].id) =>
              \E r \in dm_conversations :
                 /\ r.id = lastOp.resp[i].id
                 /\ r.user_id = ConvUser(lastOp.resp[i].id)
                 /\ \E k \in 1..Len(lastOp.users) :
                       /\ lastOp.users[k].id = r.user_id
                       /\ r.user_name = lastOp.users[k].name

\* The one-to-one conversations the last refresh was given by the remote API.
ListedDMs == {lastOp.resp[i].id : i \in {j \in 1..Len(lastOp.resp) : IsIm(lastOp.resp[j].id)}}

\* C23: after any sequence of refreshes the dm_conversations table holds
\* exactly one row for each conversation of kind 'im' of the most recent
\* completed refresh and no other row: a one-to-one conversation of an
\* earlier refresh that the latest one does not report is not in the table,
\* and no row comes from a conversation that is not one-to-one.
C23_DMTableRebuilt ==
    (RefreshStored /\ lastOp.ok) =>
        /\ {r.id : r \in dm_conversations} = ListedDMs
        /\ \A r1, r2 \in dm_conversations : r1.id = r2.id => r1 = r2
        /\ \A r \in dm_conversations : r.type = "im" /\ IsIm(r.id)

\* The ids of the conversations the last refresh was given.
ListedIds == {lastOp.resp[i].id : i \in 1..Len(lastOp.resp)}

RECURSIVE SumReported(_)
SumReported(resp) ==
    IF resp = <<>> THEN 0
    ELSE (IF IsIm(Head(resp).id) \/ Head(resp).members = "ok"
          THEN Cardinality(ReportedMembers(Head(resp))) ELSE 0)
         + SumReported(Tail(resp))

\* C26: a refresh produces exactly one membership edge per (conversation,
\* member id) pair the remote API reported, so the membership count it
\* reports is the sum of the member-list sizes over all conversations and is
\* the number of channel_memberships rows stored for those conversations.
C26_MembershipCount ==
    (RefreshStored /\ lastOp.ok) =>
        /\ \A i, j \in 1..Len(lastOp.memberships) :
              i # j => lastOp.memberships[i] # lastOp.memberships[j]
        /\ Len(lastOp.memberships) = SumReported(lastOp.resp)
        /\ refreshAllSlackData(lastOp.resp).totalMemberships = SumReported(lastOp.resp)
        /\ Len(lastOp.memberships)
              = Cardinality({cm \in channel_memberships : cm.channel_id \in ListedIds})

\* The listed conversations whose conversations.members call failed (it
\* threw, or answered ok = false).
MemberFetchFailed(resp) ==
    {resp[i].id : i \in {j \in 1..Len(resp) : resp[j].members \in {"throw", "notok"}}}

\* C30: when the member-list fetch of one conversation fails during a
\* refresh, the refresh still completes and stores that conversation's
\* channel row, contributes no membership row for it, and leaves the
\* membership rows stored for it before exactly as they were.
C30_MemberFetchFailure ==
    [][(lastOp'.op = "refresh" /\ MemberFetchFailed(lastOp'.resp) # {}) =>
          /\ lastOp'.ok
          /\ lastOp'.error = ""
          /\ \A c \in MemberFetchFailed(lastOp'.resp) :
                /\ \E r \in channels' : r.id = c
                /\ \A i \in 1..Len(lastOp'.memberships) :
                      lastOp'.memberships[i].channel_id # c
                /\ RowsOfChannel(channel_memberships', c)
                      = RowsOfChannel(channel_memberships, c)]_vars

\* C30's case: conversations.members threw for a channel that had rows
\* stored by an earlier refresh, in a refresh that stored the edge of
\* another conversation.
C30_Witness ==
    /\ lastOp.op = "refresh"
    /\ lastOp.ok
    /\ \E i \in 1..Len(lastOp.resp) :
          /\ lastOp.resp[i].members = "throw"
          /\ RowsOfChannel(channel_memberships, lastOp.resp[i].id) # {}
    /\ lastOp.memberships # <<>>

(***************************************************************************)
(* The refresh tool in a workspace with an archived channel and two        *)
(* one-to-one conversations, one of them the conversation the handler      *)
(* gives priority 100, together with updateDMPriority (specification       *)
(* SpecSync).  Every member listing and profile fetch succeeds.            *)
(***************************************************************************)
SyncOrder == << <<"A", 1>>, <<"D", 1>>, <<"D", PriorityDMNumber>> >>

SyncResponses ==
    {resp \in UNION {Responses(cs) : cs \in SubSeqs(SyncOrder)} :
        \A i \in 1..Len(resp) :
           /\ resp[i].members \in {"none", "ok"}
           /\ \A u \in DOMAIN resp[i].info : resp[i].info[u] = "ok"}

\* The priorities a caller of updateDMPriority assigns.
AssignedPriorities == {0, 50, 100}

UpdateDMPriorityCall ==
    /\ lastOp.op = "none"
    /\ \E dmId \in Range(SyncOrder), p \in AssignedPriorities :
          /\ dm_conversations' = updateDMPriority(dm_conversations, dmId, p)
          /\ storeCall' = [fn |-> "updateDMPriority",
                           rows |-> <<[id |-> dmId, priority |-> p]>>,
                           before |-> dm_conversations, ok |-> TRUE]
    /\ UNCHANGED <<channels, users, channel_memberships,
                   slack_tokens, envToken, lastOp, tokenVars, fetchVars, callVars>>

SyncInit ==
    /\ channels = {}
    /\ users = {}
    /\ channel_memberships = {}
    /\ dm_conversations = {}
    /\ slack_tokens = {StoredToken}
    /\ envToken = NoToken
    /\ lastOp = NoOp
    /\ storeCall = NoCall
    /\ TokensIdle
    /\ FetchIdle
    /\ CallsIdle

SyncNext ==
    \/ RefreshWith(SyncResponses)
    \/ UpdateDMPriorityCall
    \/ ReturnResult

SpecSync == SyncInit /\ [][SyncNext]_vars

(***************************************************************************)
(* Properties of the refresh tool with archived channels and priorities    *)
(* (specification SpecSync).                                               *)
(***************************************************************************)
\* C25: a refresh asks the remote API for non-archived conversations only
\* and issues no member-list fetch for an archived conversation; a channel
\* stored as archived keeps its stored row and its membership rows across
\* the refresh.
C25_ArchivedExcluded ==
    [][(lastOp'.op = "refresh" /\ lastOp'.list = "ok") =>
          /\ ListRequest.exclude_archived = "true"
          /\ \A i \in 1..Len(lastOp'.resp) :
                IsArchived(lastOp'.resp[i].id) => lastOp'.resp[i].members = "none"
          /\ \A r \in channels :
                r.is_archived =>
                   /\ r \in channels'
                   /\ RowsOfChannel(channel_memberships', r.id)
                         = RowsOfChannel(channel_memberships, r.id)]_vars

\* The priority the handler computes for a one-to-one conversation.
ComputedPriority(d) == IF d = <<"D", PriorityDMNumber>> THEN 100 ELSE 0

\* C29: a priority assigned by updateDMPriority(dm, p) does not survive a
\* refresh: after a refresh that includes dm, the stored priority of dm is
\* the one the refresh computes (100 for the hard-coded conversation id,
\* else 0), not p.
C29_PriorityOverwritten ==
    (RefreshStored /\ lastOp.ok) =>
        \A d \in ListedDMs :
           \A r \in dm_conversations : r.id = d => r.priority = ComputedPriority(d)

\* C29's case: updateDMPriority gave a stored conversation a priority other
\* than the computed one, and the next refresh included that conversation.
C29_Witness ==
    /\ RefreshStored
    /\ lastOp.ok
    /\ storeCall.fn = "updateDMPriority"
    /\ \E d \in ListedDMs :
          /\ storeCall.rows[1].id = d
          /\ storeCall.rows[1].priority # ComputedPriority(d)
          /\ \E r \in storeCall.before : r.id = d
          /\ \E r \in dm_conversations : r.id = d

(***************************************************************************)
(* slack.ts: fetchLatestMessagesFromChannel followed remote call by remote *)
(* call (specification SpecCalls): a call is issued in one step and        *)
(* answered in another.  The history page is as the remote API reports it: *)
(* every message carries its ts (the ts is the id of a message), newest    *)
(* first.                                                                  *)
(***************************************************************************)
CallPages(k) ==
    {p \in Pages(k) :
        \A i \in 1..k :
           /\ p[i].ts # NoTs
           /\ i < k => ParseTs(p[i].ts) > ParseTs(p[i + 1].ts)}

NewCall(api, i) == [api |-> api, index |-> i, done |-> FALSE, ok |-> FALSE]

Settle(calls, k, ok) == [calls EXCEPT ![k] = [@ EXCEPT !.done = TRUE, !.ok = ok]]

\* The calls issued and not answered yet.
InFlight == {k \in 1..Len(remoteCalls) : ~ remoteCalls[k].done}

\* The reply fetch started and not awaited: the loop goes on to the next
\* message at once.
StartReplies(i) == [fpc |-> "loop", msgIndex |-> i + 1]

\* const replies = await slack.conversations.replies(...): the loop stays at
\* message i until the call is answered.
AwaitReplies(i) == [fpc |-> "replies", msgIndex |-> i]

\* const history = await slack.conversations.history(...): the call goes out.
HistoryCall ==
    /\ fpc = "idle"
    /\ remoteCalls = <<>>
    /\ remoteCalls' = <<NewCall("history", 0)>>
    /\ fpc' = "history"
    /\ UNCHANGED <<storeVars, slack_tokens, envToken, lastOp, storeCall, tokenVars,
                   page, channelInfo, msgIndex, messagesWithThreads, replyFetch,
                   fetchResult, callVars>>

\* The history call is answered: a failure is thrown to the caller, an
\* empty page returns [].
HistoryAnswer ==
    /\ fpc = "history"
    /\ \/ /\ fpc' = "done"
          /\ fetchResult' = [ok |-> FALSE, messages |-> <<>>]
          /\ remoteCalls' = Settle(remoteCalls, 1, FALSE)
          /\ UNCHANGED page
       \/ \E k \in 0..MaxPage : \E history \in CallPages(k) :
             /\ page' = history
             /\ remoteCalls' = Settle(remoteCalls, 1, TRUE)
             /\ fpc' = IF EmptyHistory(history) THEN "done" ELSE "info"
             /\ UNCHANGED fetchResult
    /\ UNCHANGED <<storeVars, slack_tokens, envToken, lastOp, storeCall, tokenVars,
                   channelInfo, msgIndex, messagesWithThreads, replyFetch, callVars>>

\* const info = await slack.conversations.info(...): the call goes out.
InfoCall ==
    /\ fpc = "info"
    /\ remoteCalls' = Append(remoteCalls, NewCall("info", 0))
    /\ fpc' = "info_wait"
    /\ UNCHANGED <<storeVars, slack_tokens, envToken, lastOp, storeCall, tokenVars,
                   page, channelInfo, msgIndex, messagesWithThreads, replyFetch,
                   fetchResult, callVars>>

\* The info call is answered: the channel's name, or the channel id when
\* the call failed.
InfoAnswer ==
    /\ fpc = "info_wait"
    /\ \E ok \in BOOLEAN :
          /\ channelInfo' = IF ok THEN <<"chan", 1>> ELSE <<"C", 1>>
          /\ remoteCalls' = Settle(remoteCalls, Len(remoteCalls), ok)
    /\ fpc' = "loop"
    /\ msgIndex' = 1
    /\ UNCHANGED <<storeVars, slack_tokens, envToken, lastOp, storeCall, tokenVars,
                   page, messagesWithThreads, replyFetch, fetchResult, callVars>>

\* One turn of the loop for a message without a thread: the push.
PushMessage ==
    /\ fpc = "loop"
    /\ msgIndex <= Len(page)
    /\ ~ HasThread(page[msgIndex])
    /\ messagesWithThreads' =
          Append(messagesWithThreads, MessageWithContext(page[msgIndex], channelInfo, <<>>))
    /\ replyFetch' = Append(replyFetch, [asked |-> FALSE, ok |-> TRUE, messages |-> <<>>])
    /\ msgIndex' = msgIndex + 1
    /\ UNCHANGED <<storeVars, slack_tokens, envToken, lastOp, storeCall, tokenVars,
                   fpc, page, channelInfo, fetchResult, remoteCalls, callVars>>

\* One turn of the loop for a message with a thread: the reply fetch goes out.
RepliesCall ==
    /\ fpc = "loop"
    /\ msgIndex <= Len(page)
    /\ HasThread(page[msgIndex])
    /\ remoteCalls' = Append(remoteCalls, NewCall("replies", msgIndex))
    /\ \E next \in {AwaitReplies(msgIndex)} :
          /\ fpc' = next.fpc
          /\ msgIndex' = next.msgIndex
    /\ UNCHANGED <<storeVars, slack_tokens, envToken, lastOp, storeCall, tokenVars,
                   page, channelInfo, messagesWithThreads, replyFetch, fetchResult,
                   callVars>>

\* A reply fetch is answered: the replies are nested and the message pushed.
RepliesAnswer ==
    /\ \E k \in InFlight :
          /\ remoteCalls[k].api = "replies"
          /\ LET msg == page[remoteCalls[k].index]
             IN  \E answer \in ReplyAnswers(msg) :
                 \E tried \in {TryReplies(msg, answer)} :
                    /\ remoteCalls' = Settle(remoteCalls, k, answer.ok)
                    /\ replyFetch' = Append(replyFetch,
                                            [asked |-> TRUE, ok |-> answer.ok,
                                             messages |-> answer.messages])
                    /\ IF tried.thrown
                       THEN /\ fpc' = "done"
                            /\ fetchResult' = [ok |-> FALSE, messages |-> <<>>]
                            /\ UNCHANGED <<messagesWithThreads, msgIndex>>
                       ELSE /\ messagesWithThreads' =
                                  Append(messagesWithThreads,
                                         MessageWithContext(msg, channelInfo, tried.replies))
                            /\ fpc' = IF fpc = "replies" THEN "loop" ELSE fpc
                            /\ msgIndex' = IF fpc = "replies" THEN msgIndex + 1 ELSE msgIndex
                            /\ UNCHANGED fetchResult
    /\ UNCHANGED <<storeVars, slack_tokens, envToken, lastOp, storeCall, tokenVars,
                   page, channelInfo, callVars>>

RemoteCallsInit == MessagesInit

RemoteCallsNext ==
    \/ HistoryCall
    \/ HistoryAnswer
    \/ InfoCall
    \/ InfoAnswer
    \/ PushMessage
    \/ RepliesCall
    \/ RepliesAnswer
    \/ SortAndReturn
    \/ FetchReturn

SpecCalls == RemoteCallsInit /\ [][RemoteCallsNext]_vars

(***************************************************************************)
(* Properties of the remote calls of fetchLatestMessagesFromChannel        *)
(* (specification SpecCalls).                                              *)
(***************************************************************************)
\* conversations.history has answered with a page of no messages.
EmptyPageAnswered ==
    /\ remoteCalls # <<>>
    /\ remoteCalls[1].api = "history"
    /\ remoteCalls[1].done
    /\ remoteCalls[1].ok
    /\ page = <<>>

\* C27: when the history page of a channel has no messages,
\* fetchLatestMessagesFromChannel returns the empty sequence, raises no
\* error, and issues no channel-info and no reply call.
C27_EmptyChannel ==
    EmptyPageAnswered =>
        /\ fpc = "done"
        /\ fetchResult.ok
        /\ fetchResult.messages = <<>>
        /\ \A k \in 1..Len(remoteCalls) : remoteCalls[k].api = "history"
        /\ Len(remoteCalls) = 1

\* C27's case: the call returned on an empty page.
C27_Witness ==
    /\ EmptyPageAnswered
    /\ fpc = "done"
    /\ fetchResult = [ok |-> TRUE, messages |-> <<>>]

\* The places of the reply fetches among the remote calls issued so far.
ReplyCalls == {k \in 1..Len(remoteCalls) : remoteCalls[k].api = "replies"}

=============================================================================
